---- MODULE Spec2Model ----
(***************************************************************************)
(* A model of hattya/go.notify.                                            *)
(*                                                                         *)
(* Part 1 (specification Spec): the GNTP client engine of gntp/gntp.go:    *)
(* Client.send, the callback reader goroutine Client.callback,             *)
(* Client.Reset, the client mutex, the cancellation scope                  *)
(* (context.Context), the unbuffered Callback channel and the wait group.  *)
(*                                                                         *)
(* Part 2 (specification FacadeSpec): the Notifier facades of              *)
(* gntp/impl.go, freedesktop/impl.go and windows/impl_windows.go.          *)
(*                                                                         *)
(* Part 3 (specifications CodecSpec, InfoSpec, ParseSpec): the Info of a   *)
(* GNTP message: SetPassword, Encrypt, Decrypt, String and ParseInfo, over *)
(* byte and character sequences.                                           *)
(*                                                                         *)
(* Part 4 (specifications ReplySpec, FrameSpec): what Client.send makes of *)
(* one reply and what Client.callback makes of one message on a retained   *)
(* connection.                                                             *)
(*                                                                         *)
(* Part 5 (specification OptionSpec): the option maps of the three         *)
(* notifier.Register implementations.                                      *)
(*                                                                         *)
(* Part 6 (specifications FdSpec, FdLiveSpec, ActionSpec): Client.Close,   *)
(* the signal goroutine and Notification.Action of freedesktop/notify.go.  *)
(*                                                                         *)
(* Part 7 (specification ImageSpec): util.Convert.                         *)
(*                                                                         *)
(* Part 8 (specifications AccessSpec, RequestSpec): the accesses of the    *)
(* GNTP client's methods to the state they share, and what Client.send     *)
(* writes on its connection.                                               *)
(*                                                                         *)
(* Part 9 (specifications ConnSpec, BufferSpec, SaltSpec): the order of    *)
(* the steps of one send call on its connection, the lines and resources   *)
(* that buffer collects for a request, and SetPassword called again on the *)
(* same Info.                                                              *)
(*                                                                         *)
(* Part 10 (specification WinLiveSpec): NotifyIcon.Close, the message      *)
(* goroutine with windowProc and the event goroutine of                    *)
(* windows/notify_windows.go.                                              *)
(***************************************************************************)
EXTENDS Integers, Sequences, FiniteSets, TLC

\* Number of requests (send calls, one TCP connection each) in a run.
MaxConns == 2

\* Number of Reset (or notifier Close) calls in a run.
MaxResets == 2

VARIABLES
    mu,          \* c.mu: <<"free",0>>, <<"reset",0>>, <<"send",k>> or <<"reader",k>>
    cb,          \* c.cb: the open-callbacks set (connections)
    ctx,         \* c.ctx: the current cancellation scope (a scope id)
    cancelledBy, \* scope id -> number of the Reset call that cancelled it, 0: live
    wg,          \* c.wg: outstanding callback readers
    nreset,      \* Reset calls that have returned
    rstPc,       \* position of the Reset caller: idle, locked, closed
    nconn,       \* send calls started so far; call k uses connection k
    spc,         \* position of send call k: idle, wantlock, locked, done
    mt,          \* message type of send call k
    err,         \* the err variable of send call k
    open,        \* whether connection k is open at the client's end
    wire,        \* what the server sent on connection k after its reply
    rpc,         \* position of callback reader k
    rctx,        \* the ctx argument of callback reader k
    sendq,       \* readers blocked in "c.Callback <- cb", in blocking order
    consumer,    \* the goroutine receiving from c.Callback: idle or recv (blocked)
    received,    \* callbacks the consumer received, in order (by connection)
    decoded,     \* callbacks in the order their readers finished decoding
    dropped,     \* readers that left the select through ctx.Done()
    everCb,      \* connections that were ever added to c.cb
    nspawn,      \* callback goroutines started for connection k
    regAt,       \* Reset calls returned when send call k registered its reader
    backend,     \* facade: the backend of the notifier under study
    ev,          \* facade: p.ev, event -> registered template (or NoTemplate)
    sent,        \* facade: the notifications handed to the backend's Notify, in order
    result,      \* facade: the last facade call and the error it returned
    lastReq,     \* facade: the list the last Register call handed to c.Register (GNTP)
    info,        \* codec: the Info value i that the operations below work on
    buf,         \* codec: the byte string in hand (argument, then result)
    data0,       \* codec: the byte string the run started with
    cerr,        \* codec: what the last operation returned besides its value
    ops,         \* codec: the operations applied so far, in order
    pw,          \* codec: the password given to SetPassword
    line,        \* codec: the information line in hand (characters)
    parsed,      \* codec: what ParseInfo returned, with the password it was given
    parts,       \* codec: the tokens a peer composed the line of (NoParts: no peer)
    reply,       \* reply: what the server answered to one request
    outcome,     \* reply: the resp and err that send made of it
    frame,       \* reader: what a peer put on a retained connection, and c.Password
    heard,       \* reader: how far callback got with it, and the Callback it built
    regIn,       \* options: one notifier.Register call (backend, icon, opts, platform)
    regOut,      \* options: the error it returned and the template it stored
    fdMu,        \* freedesktop: c.mu, 0 (free) or the Close caller holding it
    fdDone,      \* freedesktop: whether c.done is closed
    fdWg,        \* freedesktop: c.wg
    sigPc,       \* freedesktop: the signal goroutine: select or exited
    connCloses,  \* freedesktop: calls of c.conn.Close() so far
    closePc,     \* freedesktop: position of each Close caller
    closeCalls,  \* freedesktop: Close calls each caller has started
    closeRet,    \* freedesktop: what each caller's last Close returned through
    chOn,        \* freedesktop: kind -> whether closed / invoked is not nil
    sbuf,        \* freedesktop: kind -> closedBuf / invokedBuf
    nsig,        \* freedesktop: signals the goroutine took from c.c
    acc,         \* freedesktop: kind -> the signals of the kind it took, in order
    got,         \* freedesktop: kind -> what the consumer received, in order
    actions,     \* freedesktop: n.Actions of one Notification
    calls,       \* freedesktop: the Action calls made on it, as <<key, label>>
    img,         \* util: the image given to Convert (its type and its bounds)
    converted,   \* util: what Convert returned
    amu,         \* accesses: c.mu, 0 (free) or the goroutine holding it
    apc,         \* accesses: goroutine -> the method it runs and where it is
    alog,        \* accesses: the accesses to c.cb, c.ctx, c.cancel and c.Header so far
    ncall,       \* accesses: Register, Notify and Reset calls started so far
    req,         \* request: what one send call is given (client fields, buffer b)
    wrote,       \* request: what it wrote on the connection, and its error so far
    call,        \* connection: one send call (message type, resources, what the server does)
    cpc,         \* connection: where the send call is
    kpc,         \* connection: where the callback goroutine of the call is
    trace,       \* connection: the writes and reads made on the connection, in order
    breq,        \* buffer: one Register or Notify call (hash algorithm, icons, a custom header)
    built,       \* buffer: the error of the call, the headers of its buffer and b.list
    niQueue,     \* the message queue of the window ni.wnd, oldest message first
    niMsg,       \* where the message goroutine is
    niEvent,     \* the event goroutine: its position and the lengths of balloonBuf and menuBuf
    niMu,        \* ni.mu: "free", or the method that holds it
    niDone,      \* ni.done is closed
    niErr,       \* the buffer of ni.err (capacity 1)
    niWg,        \* ni.wg
    niAdded,     \* ni.added
    niClose,     \* the goroutine that calls ni.Close: position, calls returned, last result
    niPosts      \* messages posted to the window by the shell so far

clientVars == <<mu, cb, ctx, cancelledBy, wg, nreset, rstPc, nconn, spc, mt,
                err, open, wire, rpc, rctx, sendq, consumer, received, decoded,
                dropped, everCb, nspawn, regAt>>

facadeVars == <<backend, ev, sent, result, lastReq>>

codecVars == <<info, buf, data0, cerr, ops, pw, line, parsed, parts>>

fdVars ==
    <<fdMu, fdDone, fdWg, sigPc, connCloses, closePc, closeCalls, closeRet, chOn, sbuf,
      nsig, acc, got>>

rplVars == <<reply, outcome>>

frameVars == <<frame, heard>>

optVars == <<regIn, regOut>>

actVars == <<actions, calls>>

imgVars == <<img, converted>>

accVars == <<amu, apc, alog, ncall>>

reqVars == <<req, wrote>>

connVars == <<call, cpc, kpc, trace>>

bufVars == <<breq, built>>

winVars == <<niQueue, niMsg, niEvent, niMu, niDone, niErr, niWg, niAdded, niClose, niPosts>>

replyVars ==
    <<rplVars, frameVars, optVars, fdVars, actVars, imgVars, accVars, reqVars, connVars, bufVars, winVars>>

\* What the actions of each of these parts leave as it is.
restRpl ==
    <<frameVars, optVars, fdVars, actVars, imgVars, accVars, reqVars,
      connVars, bufVars, winVars, clientVars, facadeVars, codecVars>>

restFrame ==
    <<rplVars, optVars, fdVars, actVars, imgVars, accVars, reqVars,
      connVars, bufVars, winVars, clientVars, facadeVars, codecVars>>

restOpt ==
    <<rplVars, frameVars, fdVars, actVars, imgVars, accVars, reqVars,
      connVars, bufVars, winVars, clientVars, facadeVars, codecVars>>

restFd ==
    <<rplVars, frameVars, optVars, actVars, imgVars, accVars, reqVars,
      connVars, bufVars, winVars, clientVars, facadeVars, codecVars>>

restAct ==
    <<rplVars, frameVars, optVars, fdVars, imgVars, accVars, reqVars,
      connVars, bufVars, winVars, clientVars, facadeVars, codecVars>>

restImg ==
    <<rplVars, frameVars, optVars, fdVars, actVars, accVars, reqVars,
      connVars, bufVars, winVars, clientVars, facadeVars, codecVars>>

restAcc ==
    <<rplVars, frameVars, optVars, fdVars, actVars, imgVars, reqVars, connVars, bufVars, winVars, clientVars,
      facadeVars, codecVars>>

restReq ==
    <<rplVars, frameVars, optVars, fdVars, actVars, imgVars, accVars, connVars, bufVars, winVars, clientVars,
      facadeVars, codecVars>>

restConn ==
    <<rplVars, frameVars, optVars, fdVars, actVars, imgVars, accVars, reqVars, bufVars, winVars, clientVars, facadeVars, codecVars>>

restBuf ==
    <<rplVars, frameVars, optVars, fdVars, actVars, imgVars, accVars, reqVars, connVars, winVars, clientVars, facadeVars, codecVars>>

restWin ==
    <<rplVars, frameVars, optVars, fdVars, actVars, imgVars, accVars, reqVars, connVars, bufVars, clientVars, facadeVars, codecVars>>

vars == <<clientVars, facadeVars, codecVars, replyVars>>

Conns == 1..MaxConns

Scopes == 0..MaxResets

Free == <<"free", 0>>

MessageTypes == {"REGISTER", "NOTIFY"}

\* What the server does on a retained connection: it sends a well-formed
\* -CALLBACK, or does anything else that ends the reader's read (other bytes, or
\* closing its end). wire[k] is "none" before and "taken" once the reader read it.
\* ReadCallback below decodes one message in detail: "callback" is a message that
\* takes it to its select and "bad" one on which it returns (a message on which
\* Decrypt panics ends the program and is no move here).
ServerMoves == {"callback", "bad"}

Cancelled(g) == cancelledBy[g] # 0

Range(s) == {s[i] : i \in 1..Len(s)}

RECURSIVE Filter(_, _)
Filter(s, keep) ==
    IF s = <<>> THEN <<>>
    ELSE IF Head(s) \in keep THEN <<Head(s)>> \o Filter(Tail(s), keep)
         ELSE Filter(Tail(s), keep)

----------------------------------------------------------------------------
(* The Notifier facades: notifier in gntp/impl.go, freedesktop/impl.go and     *)
(* windows/impl_windows.go. One notifier is studied at a time.                *)

\* Notifications one notifier hands to its backend in a run.
MaxDispatch == 2

Backends == {"gntp", "freedesktop", "windows"}

Events == {"e1", "e2"}

Titles == {"T1", "T2"}

Bodies == {"B1", "B2"}

\* The option-derived part of a template (gntp:sticky, freedesktop:timeout,
\* windows:sound, ...), as one small value.
Opts == {0, 1}

\* new(Notification): the zero value. A template is stored with set = TRUE; the
\* map has no entry for an event whose value here is NoTemplate.
NoTemplate == [set |-> FALSE, opt |-> 0, title |-> "", body |-> ""]

Template(o) == [set |-> TRUE, opt |-> o, title |-> "", body |-> ""]

NoCall == [op |-> "none", event |-> "", err |-> "nil"]

\* No REGISTER request was made.
NoRequest == [count |-> 0, names |-> <<>>]

\* The orders in which a range statement may visit the keys S of a map.
Orders(S) ==
    {l \in [1..Cardinality(S) -> S] : \A m, n \in 1..Cardinality(S) : l[m] = l[n] => m = n}

\* A list that holds the new template only.
Listed_OnlyNew(stored, e) == {e}

\* "for _, n := range p.ev { list[i] = n; i++ }": the events of the list.
Listed(stored, e) == {x \in Events : stored[x].set}

\* Client.Register(list) as far as the list goes: Notifications-Count is
\* len(n), and one block of headers follows for each element.
RegisterRequest(l) == [count |-> Len(l), names |-> l]

FacadeStart(b) ==
    /\ backend = b
    /\ ev = [e \in Events |-> NoTemplate]
    /\ sent = <<>>
    /\ result = NoCall
    /\ lastReq = NoRequest

\* A lookup whose result is not tested.
Lookup_Always(e) == TRUE

\* "ev, ok := p.ev[event]": ok.
Lookup(e) == ev[e].set

\* notifier.Register. valid: the icon and every option pass the backend's type
\* checks; o: the option-derived fields; reqOk (GNTP only): the REGISTER request
\* c.Register sends after the template is stored succeeds.
FacadeRegister(e, valid, o, reqOk) ==
    /\ IF ~valid
       THEN /\ ev' = ev
            /\ result' = [op |-> "Register", event |-> e, err |-> "option"]
            /\ lastReq' = lastReq
       ELSE /\ ev' = [ev EXCEPT ![e] = Template(o)]
            /\ result' = [op |-> "Register", event |-> e,
                          err |-> IF backend = "gntp" /\ ~reqOk THEN "request" ELSE "nil"]
            /\ IF backend = "gntp"
               THEN \E l \in Orders(Listed([ev EXCEPT ![e] = Template(o)], e)) :
                        lastReq' = RegisterRequest(l)
               ELSE lastReq' = lastReq
    /\ UNCHANGED <<backend, sent, clientVars, codecVars, replyVars>>

\* A Notify that sets the title and the body through the stored pointer.
StoredAfterNotify_InPlace(e, t, bd) == [ev EXCEPT ![e].title = t, ![e].body = bd]

\* p.ev after a Notify for a registered event: "*n = *ev" copies the template
\* into a new Notification and the assignments go to the copy.
StoredAfterNotify(e, t, bd) == ev

\* notifier.Notify: the lookup, the copy "*n = *ev", the title and body set on the
\* copy, and the backend's Notify (dispatchOk: it returns nil).
FacadeNotify(e, t, bd, dispatchOk) ==
    /\ IF ~Lookup(e)
       THEN /\ result' = [op |-> "Notify", event |-> e, err |-> "ErrEvent"]
            /\ sent' = sent
            /\ ev' = ev
       ELSE /\ Len(sent) < MaxDispatch
            /\ LET n == [ev[e] EXCEPT !.title = t, !.body = bd] IN
                sent' = Append(sent, [event |-> e, n |-> n])
            /\ ev' = StoredAfterNotify(e, t, bd)
            /\ result' = [op |-> "Notify", event |-> e,
                          err |-> IF dispatchOk THEN "nil" ELSE "backend"]
    /\ UNCHANGED <<backend, lastReq, clientVars, codecVars, replyVars>>

----------------------------------------------------------------------------
(* The Block Cipher Layer and the key material of an Info: Info.SetPassword,  *)
(* Info.Encrypt, Info.Decrypt, EncryptionAlgorithm.New, HashAlgorithm.New.     *)
(* Byte strings are sequences of numbers in 0..255. The hash functions and    *)
(* the block ciphers of the standard library are replaced by small functions  *)
(* with the same sizes: a digest that depends on the algorithm and on every   *)
(* input byte, and a keyed permutation of a block with its inverse.           *)

\* Longest byte string handed to Encrypt or Decrypt in a run.
MaxLen == 17

\* Operations applied to one Info in a run.
MaxOps == 3

HashAlgorithms == {"MD5", "SHA1", "SHA256", "SHA512"}

EncryptionAlgorithms == {"NONE", "DES", "3DES", "AES"}

\* Size of the digest in bytes.
HashSize(ha) ==
    CASE ha = "MD5" -> 16 [] ha = "SHA1" -> 20 [] ha = "SHA256" -> 32
      [] ha = "SHA512" -> 64

\* n in EncryptionAlgorithm.New: the bytes of key material the cipher takes.
KeyLength(ea) == CASE ea = "DES" -> 8 [] ea = "3DES" -> 24 [] ea = "AES" -> 24

\* cipher.Block.BlockSize().
BlockSize(ea) == CASE ea = "DES" -> 8 [] ea = "3DES" -> 8 [] ea = "AES" -> 16

Fill(b, n) == [j \in 1..n |-> b]

\* A number that depends on every byte of m[lo..hi] and on its position.
RECURSIVE Mix(_, _, _)
Mix(m, lo, hi) ==
    IF lo > hi THEN 0
    ELSE IF lo = hi THEN ((m[lo] + 1) * (2 * lo + 1)) % 256
    ELSE LET mid == (lo + hi) \div 2 IN
         (Mix(m, lo, mid) + Mix(m, mid + 1, hi)) % 256

\* h.Write(m); h.Sum(nil) for a hash of algorithm ha.
Digest(ha, m) ==
    LET x == Mix(m, 1, Len(m)) + HashSize(ha) IN
    [j \in 1..HashSize(ha) |-> (x + 37 * j) % 256]

RECURSIVE Xor(_, _)
Xor(a, b) ==
    IF a = 0 THEN b
    ELSE IF b = 0 THEN a
    ELSE 2 * Xor(a \div 2, b \div 2) + ((a + b) % 2)

XorBlock(x, y) == [j \in 1..Len(x) |-> Xor(x[j], y[j])]

\* cipher.Block.Encrypt and Decrypt: a permutation of the blocks under key.
BlockEncrypt(key, b) ==
    [j \in 1..Len(b) |-> (b[(j % Len(b)) + 1] + key[j]) % 256]

BlockDecrypt(key, c) ==
    [i \in 1..Len(c) |->
        LET j == IF i = 1 THEN Len(c) ELSE i - 1 IN (c[j] + 256 - key[j]) % 256]

\* cipher.NewCBCEncrypter(block, iv).CryptBlocks(dst, src), len(src) a multiple of bs.
RECURSIVE CBCEncrypt(_, _, _, _)
CBCEncrypt(key, bs, prev, src) ==
    IF src = <<>> THEN <<>>
    ELSE LET c == BlockEncrypt(key, XorBlock(SubSeq(src, 1, bs), prev)) IN
         c \o CBCEncrypt(key, bs, c, SubSeq(src, bs + 1, Len(src)))

\* cipher.NewCBCDecrypter(block, iv).CryptBlocks(dst, src).
RECURSIVE CBCDecrypt(_, _, _, _)
CBCDecrypt(key, bs, prev, src) ==
    IF src = <<>> THEN <<>>
    ELSE LET c == SubSeq(src, 1, bs) IN
         XorBlock(BlockDecrypt(key, c), prev)
             \o CBCDecrypt(key, bs, c, SubSeq(src, bs + 1, Len(src)))

\* i.cipher == nil.
NoCipher == [key |-> <<>>, bs |-> 0]

\* EncryptionAlgorithm.New(key): the cipher.Block, or the error.
NewCipher(ea, key) ==
    IF ea = "NONE" THEN [cipher |-> NoCipher, err |-> "nil"]
    ELSE IF ea \notin EncryptionAlgorithms
    THEN [cipher |-> NoCipher, err |-> "ErrEncryption"]
    ELSE IF Len(key) < KeyLength(ea)
    THEN [cipher |-> NoCipher, err |-> "ErrKeyLength"]
    ELSE [cipher |-> [key |-> SubSeq(key, 1, KeyLength(ea)), bs |-> BlockSize(ea)],
          err |-> "nil"]

\* A padded length that is the next multiple of bs at or after n.
PaddedLen_NoFullBlock(n, bs) == ((n + bs - 1) \div bs) * bs

\* len(src) in Encrypt: int(len(data)/bs)*bs + bs.
PaddedLen(n, bs) == (n \div bs) * bs + bs

\* Encrypt's src: data followed by bytes that all hold the number of bytes added.
Padded(data, bs) ==
    LET n == PaddedLen(Len(data), bs) IN
    data \o Fill((n - Len(data)) % 256, n - Len(data))

\* Info.Encrypt.
Encrypt(i, data) ==
    IF i.cipher = NoCipher THEN data
    ELSE CBCEncrypt(i.cipher.key, i.cipher.bs, i.IV, Padded(data, i.cipher.bs))

\* A Decrypt that returns the decrypted bytes with their padding.
Strip_Nothing(dst, n) == dst

\* dst[:n].
Strip(dst, n) == SubSeq(dst, 1, n)

\* Decrypt's test of the padding of the decrypted bytes dst: v is the last
\* byte, n = len(dst) - v; it fails if n < 0 or one of dst[n:] is not v.
PaddingAccepted(dst) ==
    LET v == dst[Len(dst)]
        n == Len(dst) - v
    IN /\ n >= 0
       /\ \A j \in (n + 1)..Len(dst) : dst[j] = v

\* Info.Decrypt: the bytes and the error. CryptBlocks panics when data is not
\* made of full blocks, and dst[len(dst)-1] panics when data is empty.
Decrypt(i, data) ==
    IF i.cipher = NoCipher THEN [out |-> data, err |-> "nil"]
    ELSE IF Len(data) % i.cipher.bs # 0 \/ Len(data) = 0
    THEN [out |-> <<>>, err |-> "panic"]
    ELSE LET dst == CBCDecrypt(i.cipher.key, i.cipher.bs, i.IV, data) IN
         IF PaddingAccepted(dst)
         THEN [out |-> Strip(dst, Len(dst) - dst[Len(dst)]), err |-> "nil"]
         ELSE [out |-> <<>>, err |-> "ErrPKCS7"]

\* Passwords, as the bytes of the string: "" and "pw".
Passwords == {<<>>, <<112, 119>>}

\* What rand.Read may put into a new 16-byte salt.
Salts == {[j \in 1..16 |-> j], [j \in 1..16 |-> (7 * j) % 256]}

\* What rand.Read may put into a new IV of bs bytes.
FreshIV(bs) == [j \in 1..bs |-> (200 + j) % 256]

\* &Info{Version: "1.0", MessageType: mtype, HashAlgorithm: ha,
\*       EncryptionAlgorithm: ea} as send builds it.
NewInfo(mtype, ea, ha) ==
    [Version |-> "1.0", MessageType |-> mtype, EncryptionAlgorithm |-> ea,
     IV |-> <<>>, HashAlgorithm |-> ha, KeyHash |-> <<>>, Salt |-> <<>>,
     cipher |-> NoCipher]

\* A SetPassword that draws a new salt at every call.
SaltFor_Fresh(i, salt0) == salt0

\* "if len(i.Salt) == 0 { i.Salt = make([]byte, 16); rand.Read(i.Salt) }".
SaltFor(i, salt0) == IF Len(i.Salt) = 0 THEN salt0 ELSE i.Salt

\* Info.SetPassword(p): the Info afterwards and the error. salt0 is the salt
\* rand.Read would produce. Every assignment made before an error stays.
SetPassword(i, p, salt0) ==
    IF p = <<>>
    THEN [info |-> [i EXCEPT !.IV = <<>>, !.KeyHash = <<>>, !.Salt = <<>>,
                             !.cipher = NoCipher],
          err |-> "nil"]
    ELSE LET i1 == [i EXCEPT !.Salt = SaltFor(i, salt0)] IN
         IF i.HashAlgorithm \notin HashAlgorithms
         THEN [info |-> i1, err |-> "ErrHash"]
         ELSE LET k == Digest(i.HashAlgorithm, p \o i1.Salt)
                  i2 == [i1 EXCEPT !.KeyHash = Digest(i.HashAlgorithm, k)]
              IN IF i.EncryptionAlgorithm = "NONE"
                 THEN [info |-> i2, err |-> "nil"]
                 ELSE LET c == NewCipher(i.EncryptionAlgorithm, k)
                          i3 == [i2 EXCEPT !.cipher = c.cipher]
                      IN IF c.err # "nil"
                         THEN [info |-> i3, err |-> c.err]
                         ELSE [info |-> IF Len(i3.IV) # c.cipher.bs
                                        THEN [i3 EXCEPT !.IV = FreshIV(c.cipher.bs)]
                                        ELSE i3,
                               err |-> "nil"]

----------------------------------------------------------------------------
(* The Info Line Codec: Info.String and ParseInfo. A line is a sequence of    *)
(* characters, each a string of length one.                                   *)

Lower == <<"a", "b", "c", "d", "e", "f", "g", "h", "i", "j", "k", "l", "m",
          "n", "o", "p", "q", "r", "s", "t", "u", "v", "w", "x", "y", "z">>

Upper == <<"A", "B", "C", "D", "E", "F", "G", "H", "I", "J", "K", "L", "M",
          "N", "O", "P", "Q", "R", "S", "T", "U", "V", "W", "X", "Y", "Z">>

\* strings.ToUpper.
ToUpper(l) ==
    [j \in 1..Len(l) |->
        IF \E n \in 1..26 : Lower[n] = l[j]
        THEN Upper[CHOOSE n \in 1..26 : Lower[n] = l[j]]
        ELSE l[j]]

\* strings.IndexRune(l, c), counted from 1; 0 when c does not occur.
IndexRune(l, c) ==
    IF \E j \in 1..Len(l) : l[j] = c
    THEN CHOOSE j \in 1..Len(l) : l[j] = c /\ \A n \in 1..(j - 1) : l[n] # c
    ELSE 0

WhiteSpace == {" ", "\t", "\r", "\n"}

\* strings.TrimSpace.
TrimSpace(l) ==
    LET inked == {j \in 1..Len(l) : l[j] \notin WhiteSpace} IN
    IF inked = {} THEN <<>>
    ELSE SubSeq(l, CHOOSE j \in inked : \A n \in inked : j <= n,
                   CHOOSE j \in inked : \A n \in inked : j >= n)

\* strings.HasPrefix.
HasPrefix(l, pre) == Len(l) >= Len(pre) /\ SubSeq(l, 1, Len(pre)) = pre

HexDigits == <<"0", "1", "2", "3", "4", "5", "6", "7", "8", "9", "A", "B", "C", "D", "E", "F">>

\* fmt's %X of a byte slice.
HexEncode(b) ==
    [j \in 1..(2 * Len(b)) |->
        LET x == b[(j + 1) \div 2] IN
        HexDigits[(IF j % 2 = 1 THEN x \div 16 ELSE x % 16) + 1]]

\* The value of a hexadecimal digit of either case, -1 for any other character.
HexVal(c) ==
    IF \E d \in 1..16 : HexDigits[d] = c
    THEN (CHOOSE d \in 1..16 : HexDigits[d] = c) - 1
    ELSE IF \E d \in 1..6 : Lower[d] = c
    THEN (CHOOSE d \in 1..6 : Lower[d] = c) + 9
    ELSE -1

\* hex.DecodeString: it fails on an odd length and on a character that is no digit.
HexDecode(l) ==
    IF Len(l) % 2 = 1 \/ \E j \in 1..Len(l) : HexVal(l[j]) = -1
    THEN [ok |-> FALSE, bytes |-> <<>>]
    ELSE [ok |-> TRUE,
          bytes |-> [j \in 1..(Len(l) \div 2) |->
                        16 * HexVal(l[2 * j - 1]) + HexVal(l[2 * j])]]

ReplyTypes == {"-OK", "-ERROR", "-CALLBACK"}

\* The message types ParseInfo knows.
InfoTypes == MessageTypes \cup ReplyTypes

\* A message type as characters.
TypeName(t) ==
    CASE t = "REGISTER" -> <<"R", "E", "G", "I", "S", "T", "E", "R">>
      [] t = "NOTIFY" -> <<"N", "O", "T", "I", "F", "Y">>
      [] t = "-OK" -> <<"-", "O", "K">>
      [] t = "-ERROR" -> <<"-", "E", "R", "R", "O", "R">>
      [] t = "-CALLBACK" -> <<"-", "C", "A", "L", "L", "B", "A", "C", "K">>

\* EncryptionAlgorithm.String.
EncryptionName(ea) ==
    CASE ea = "NONE" -> <<"N", "O", "N", "E">>
      [] ea = "DES" -> <<"D", "E", "S">>
      [] ea = "3DES" -> <<"3", "D", "E", "S">>
      [] ea = "AES" -> <<"A", "E", "S">>
      [] OTHER -> <<"E", "n", "c", "r", "y", "p", "t", "i", "o", "n", "A", "l", "g", "o", "r", "i", "t", "h", "m", "(", "-", "1", ")">>

\* HashAlgorithm.String.
HashName(ha) ==
    CASE ha = "MD5" -> <<"M", "D", "5">>
      [] ha = "SHA1" -> <<"S", "H", "A", "1">>
      [] ha = "SHA256" -> <<"S", "H", "A", "2", "5", "6">>
      [] ha = "SHA512" -> <<"S", "H", "A", "5", "1", "2">>
      [] OTHER -> <<"H", "a", "s", "h", "A", "l", "g", "o", "r", "i", "t", "h", "m", "(", "-", "1", ")">>

Prefix == <<"G", "N", "T", "P", "/">>

Version10 == <<"1", ".", "0">>

\* An Info.String that writes the salt before the key hash.
InfoString_SaltFirst(i) ==
    Prefix \o Version10 \o <<" ">> \o TypeName(i.MessageType) \o <<" ">>
        \o EncryptionName(i.EncryptionAlgorithm) \o <<":">> \o HexEncode(i.IV)
        \o <<" ">> \o HashName(i.HashAlgorithm) \o <<":">> \o HexEncode(i.Salt)
        \o <<".">> \o HexEncode(i.KeyHash)

\* Info.String.
InfoString(i) ==
    LET head == Prefix \o Version10 \o <<" ">> \o TypeName(i.MessageType) \o <<" ">>
        hash == HashName(i.HashAlgorithm) \o <<":">> \o HexEncode(i.KeyHash)
                    \o <<".">> \o HexEncode(i.Salt)
    IN IF i.EncryptionAlgorithm # "NONE"
       THEN head \o EncryptionName(i.EncryptionAlgorithm) \o <<":">>
                \o HexEncode(i.IV) \o <<" ">> \o hash
       ELSE IF Len(i.KeyHash) # 0
       THEN head \o EncryptionName(i.EncryptionAlgorithm) \o <<" ">> \o hash
       ELSE head \o EncryptionName(i.EncryptionAlgorithm)

\* ParseInfo returns nil and an error.
NoInfo == NewInfo("", "NONE", "MD5")

Failed(e) == [info |-> NoInfo, err |-> e]

\* The switches of ParseInfo on the names of the algorithms; "?" stands for -1.
EncryptionByName(n) ==
    IF \E ea \in EncryptionAlgorithms \ {"NONE"} : EncryptionName(ea) = n
    THEN CHOOSE ea \in EncryptionAlgorithms \ {"NONE"} : EncryptionName(ea) = n
    ELSE "?"

HashByName(n) ==
    IF \E ha \in HashAlgorithms : HashName(ha) = n
    THEN CHOOSE ha \in HashAlgorithms : HashName(ha) = n
    ELSE "?"

\* A comparison of the key hash with the hash of the password and salt alone.
KeyHashMatches_SingleHash(ha, password, salt, kh) == Digest(ha, password \o salt) = kh

\* reflect.DeepEqual(h.Sum(nil), kh) after hashing password and salt, then the sum.
KeyHashMatches(ha, password, salt, kh) ==
    Digest(ha, Digest(ha, password \o salt)) = kh

\* ParseInfo from "<keyHashAlgorithmID>" on: l is the hash segment and i holds
\* what the line said before it.
ParseHash(i, l, password) ==
    LET x == IndexRune(l, ":") IN
    IF x = 0 THEN Failed("ErrProtocol")
    ELSE LET ha == HashByName(SubSeq(l, 1, x - 1))
             l2 == SubSeq(l, x + 1, Len(l))
             y == IndexRune(l2, ".")
         IN IF y = 0 THEN Failed("ErrProtocol")
            ELSE LET kh == HexDecode(SubSeq(l2, 1, y - 1))
                     salt == HexDecode(SubSeq(l2, y + 1, Len(l2)))
                 IN IF ~kh.ok \/ ~salt.ok THEN Failed("ErrProtocol")
                    ELSE IF ha \notin HashAlgorithms THEN Failed("ErrHash")
                    ELSE IF ~KeyHashMatches(ha, password, salt.bytes, kh.bytes)
                    THEN Failed("ErrPassword")
                    ELSE LET i1 == [i EXCEPT !.HashAlgorithm = ha,
                                             !.Salt = salt.bytes,
                                             !.KeyHash = kh.bytes]
                             c == NewCipher(i.EncryptionAlgorithm,
                                            Digest(ha, password \o salt.bytes))
                         IN IF i.EncryptionAlgorithm = "NONE"
                            THEN [info |-> i1, err |-> "nil"]
                            ELSE IF c.err # "nil" THEN Failed(c.err)
                            ELSE IF Len(i.IV) # c.cipher.bs
                            THEN Failed("ErrProtocol")
                            ELSE [info |-> [i1 EXCEPT !.cipher = c.cipher],
                                  err |-> "nil"]

\* A ParseInfo that refuses a line without a key hash when the client has a
\* password.
Unhashed_Checked(i, password) ==
    IF password # <<>> THEN Failed("ErrPassword") ELSE [info |-> i, err |-> "nil"]

\* The line ends after "<encryptionAlgorithmID>": ParseInfo returns the Info
\* as it stands, and the password is not looked at.
Unhashed(i, password) == [info |-> i, err |-> "nil"]

\* ParseInfo from "<encryptionAlgorithmID>" on, for a line of message type t.
ParseEncryption(t, l, password) ==
    LET i0 == NewInfo(t, "NONE", "MD5")
        x == IndexRune(l, " ")
        eaID == SubSeq(l, 1, x - 1)
        rest == TrimSpace(SubSeq(l, x, Len(l)))
        y == IndexRune(eaID, ":")
        iv == HexDecode(SubSeq(eaID, y + 1, Len(eaID)))
        i1 == [i0 EXCEPT !.IV = iv.bytes,
                         !.EncryptionAlgorithm =
                             EncryptionByName(SubSeq(eaID, 1, y - 1))]
    IN IF x = 0
       THEN IF l # EncryptionName("NONE") THEN Failed("ErrProtocol")
            ELSE Unhashed(i0, password)
       ELSE IF y = 0
       THEN IF eaID # EncryptionName("NONE") THEN Failed("ErrProtocol")
            ELSE IF rest = <<>> THEN Unhashed(i0, password)
            ELSE ParseHash(i0, rest, password)
       ELSE IF ~iv.ok THEN Failed("ErrProtocol")
       ELSE IF SubSeq(eaID, 1, y - 1) = EncryptionName("NONE")
       THEN Failed("ErrProtocol")
       ELSE IF rest = <<>> THEN Unhashed(i1, password)
       ELSE ParseHash(i1, rest, password)

\* A ParseInfo that takes any version.
VersionAccepted_Any(v) == TRUE

\* i.Version != "1.0" is an error.
VersionAccepted(v) == v = Version10

\* ParseInfo(l, password): the Info and the error.
ParseInfo(l0, password) ==
    LET l == ToUpper(l0)
        l1 == SubSeq(l, Len(Prefix) + 1, Len(l))
        x == IndexRune(l1, " ")
        l2 == TrimSpace(SubSeq(l1, x, Len(l1)))
        y == IndexRune(l2, " ")
        mtype == SubSeq(l2, 1, y - 1)
    IN IF ~HasPrefix(l, Prefix) THEN Failed("ErrProtocol")
       ELSE IF x = 0 THEN Failed("ErrProtocol")
       ELSE IF ~VersionAccepted(SubSeq(l1, 1, x - 1)) THEN Failed("ErrProtocol")
       ELSE IF y = 0 THEN Failed("ErrProtocol")
       ELSE IF \A t \in InfoTypes : TypeName(t) # mtype THEN Failed("ErrProtocol")
       ELSE ParseEncryption(CHOOSE t \in InfoTypes : TypeName(t) = mtype,
                            TrimSpace(SubSeq(l2, y, Len(l2))), password)

----------------------------------------------------------------------------
(* Runs of the codec *)

\* Lengths of the byte strings of a run: around the multiples of the DES block.
Lengths == {n \in 0..MaxLen : n % 8 \in {0, 1, 7}}

\* Bytes that matter as a last byte: 0, a one-byte padding, a full DES and a
\* full AES block of padding, and a value above every block size.
PadBytes == {0, 1, 8, 16, 17}

\* The byte strings of a run: some bytes of text and then a run of one byte.
Inputs ==
    {Fill(100, m) \o Fill(v, t) :
        <<m, t, v>> \in {x \in (0..MaxLen) \X Lengths \X PadBytes :
                            x[1] + x[2] \in Lengths}}

\* No peer composed the line.
NoParts ==
    [version |-> <<>>, type |-> <<>>, enc |-> <<>>, hashed |-> FALSE, hash |-> <<>>,
     keyhash |-> <<>>, salt |-> <<>>, tail |-> <<>>]

\* ParseInfo has not been called.
NotParsed == [info |-> NoInfo, err |-> "none", password |-> <<>>]

\* The codec is not used.
CodecIdle ==
    /\ info = NewInfo("NOTIFY", "NONE", "MD5")
    /\ buf = <<>>
    /\ data0 = <<>>
    /\ cerr = "nil"
    /\ ops = <<>>
    /\ pw = <<>>
    /\ line = <<>>
    /\ parsed = NotParsed
    /\ parts = NoParts

\* An Info as send builds it and a byte string.
CodecInit ==
    /\ \E ea \in EncryptionAlgorithms, ha \in HashAlgorithms :
          info = NewInfo("NOTIFY", ea, ha)
    /\ buf \in Inputs
    /\ data0 = buf
    /\ cerr = "nil"
    /\ ops = <<>>
    /\ pw = <<>>
    /\ line = <<>>
    /\ parsed = NotParsed
    /\ parts = NoParts

\* An Info of any message type, as send or a server builds it, with or without
\* a salt of its own, and no byte string.
InfoInit ==
    /\ \E t \in InfoTypes, ea \in EncryptionAlgorithms, ha \in HashAlgorithms,
          salt \in {<<>>, <<1, 35, 69, 103, 137>>} :
          info = [NewInfo(t, ea, ha) EXCEPT !.Salt = salt]
    /\ buf = <<>>
    /\ data0 = <<>>
    /\ cerr = "nil"
    /\ ops = <<>>
    /\ pw = <<>>
    /\ line = <<>>
    /\ parsed = NotParsed
    /\ parts = NoParts

\* The line a peer writes from its tokens: the version, the message type, the
\* encryption token, a hash segment of a hash name, a key hash and a salt (if
\* hashed), and what follows the last token.
LineOf(q) ==
    Prefix \o q.version \o <<" ">> \o q.type \o <<" ">> \o q.enc
        \o (IF q.hashed
            THEN <<" ">> \o q.hash \o <<":">> \o HexEncode(q.keyhash) \o <<".">>
                     \o HexEncode(q.salt)
            ELSE <<>>)
        \o q.tail

\* Versions a peer may write: 1.0 and 0.0.
PeerVersions == {Version10, <<"0", ".", "0">>}

\* Message types a peer may write: the five of the protocol, one of them in
\* lower case, and one that is none of them.
PeerTypes == {TypeName(t) : t \in InfoTypes} \cup {<<"n", "o", "t", "i", "f", "y">>, <<"_">>}

\* Encryption tokens a peer may write: NONE, NONE with an IV, a cipher with an
\* IV of its block size, with a shorter IV or with none, and an unknown name.
PeerEncryptions ==
    {EncryptionName("NONE"),
     EncryptionName("NONE") \o <<":">> \o HexEncode(<<255>>),
     EncryptionName("NONE") \o <<":", "x", "x">>,
     EncryptionName("DES") \o <<":">> \o HexEncode(FreshIV(8)),
     EncryptionName("DES") \o <<":">> \o HexEncode(<<255>>),
     EncryptionName("AES") \o <<":">> \o HexEncode(FreshIV(16)),
     EncryptionName("AES"),
     <<"_", ":", "F", "F">>}

\* The salt of a peer.
PeerSalt == <<1, 35, 69, 103, 137>>

\* Hash segments a peer may write: none, or a hash name (two supported ones and
\* an unknown one) with the salt and the key hash of the password "pw", or with
\* the key hash of another salt.
PeerHashes ==
    {[hashed |-> FALSE, hash |-> <<>>, keyhash |-> <<>>, salt |-> <<>>]}
    \cup {[hashed |-> TRUE, hash |-> HashName(ha),
           keyhash |-> Digest(ha, Digest(ha, <<112, 119>> \o s0)), salt |-> PeerSalt] :
              ha \in {"MD5", "SHA256"}, s0 \in {PeerSalt, <<>>}}
    \cup {[hashed |-> TRUE, hash |-> <<"S", "H", "A", "2", "2", "4">>,
           keyhash |-> Digest("MD5", <<>>), salt |-> PeerSalt]}

\* What a peer may leave after the last token.
PeerTails == {<<>>, <<" ", "\t">>}

\* A line a peer composed.
ParseInit ==
    /\ info = NewInfo("NOTIFY", "NONE", "MD5")
    /\ buf = <<>>
    /\ data0 = <<>>
    /\ cerr = "nil"
    /\ ops = <<>>
    /\ pw = <<>>
    /\ parsed = NotParsed
    /\ \E v \in PeerVersions, t \in PeerTypes, e \in PeerEncryptions,
          h \in PeerHashes, tl \in PeerTails :
          parts = [version |-> v, type |-> t, enc |-> e, hashed |-> h.hashed,
                   hash |-> h.hash, keyhash |-> h.keyhash, salt |-> h.salt,
                   tail |-> tl]
    /\ line = LineOf(parts)

\* i.SetPassword(p), once, before the Info is used.
DoSetPassword(p, salt0) ==
    /\ ops = <<>>
    /\ LET r == SetPassword(info, p, salt0) IN
        /\ info' = r.info
        /\ cerr' = r.err
    /\ ops' = <<"SetPassword">>
    /\ pw' = p
    /\ UNCHANGED <<buf, data0, line, parsed, parts, clientVars, facadeVars, replyVars>>

\* A further i.SetPassword(p) on the same Info.
DoSetPasswordAgain(p, salt0) ==
    /\ ops # <<>>
    /\ Len(ops) < MaxOps
    /\ \A n \in 1..Len(ops) : ops[n] = "SetPassword"
    /\ LET r == SetPassword(info, p, salt0) IN
        /\ info' = r.info
        /\ cerr' = r.err
    /\ ops' = Append(ops, "SetPassword")
    /\ pw' = p
    /\ UNCHANGED <<buf, data0, line, parsed, parts, clientVars, facadeVars, replyVars>>

\* buf = i.Encrypt(buf).
DoEncrypt ==
    /\ Len(ops) = 1
    /\ cerr = "nil"
    /\ buf' = Encrypt(info, buf)
    /\ cerr' = "nil"
    /\ ops' = Append(ops, "Encrypt")
    /\ UNCHANGED <<info, data0, pw, line, parsed, parts, clientVars, facadeVars, replyVars>>

\* The peer encrypts blocks it composed itself, with the cipher and IV of the
\* Info: cipher.NewCBCEncrypter(i.Cipher(), i.IV).CryptBlocks(dst, src).
DoPeerEncrypt ==
    /\ Len(ops) = 1
    /\ cerr = "nil"
    /\ info.cipher # NoCipher
    /\ Len(buf) % info.cipher.bs = 0
    /\ buf' = CBCEncrypt(info.cipher.key, info.cipher.bs, info.IV, buf)
    /\ cerr' = "nil"
    /\ ops' = Append(ops, "PeerEncrypt")
    /\ UNCHANGED <<info, data0, pw, line, parsed, parts, clientVars, facadeVars, replyVars>>

\* buf, err = i.Decrypt(buf), as the last operation of a run.
DoDecrypt ==
    /\ Len(ops) \in 1..(MaxOps - 1)
    /\ ops[Len(ops)] # "Decrypt"
    /\ cerr = "nil"
    /\ LET r == Decrypt(info, buf) IN
        /\ buf' = r.out
        /\ cerr' = r.err
    /\ ops' = Append(ops, "Decrypt")
    /\ UNCHANGED <<info, data0, pw, line, parsed, parts, clientVars, facadeVars, replyVars>>

\* line = i.String(), after SetPassword.
DoString ==
    /\ ops = <<"SetPassword">>
    /\ line' = InfoString(info)
    /\ ops' = Append(ops, "String")
    /\ UNCHANGED <<info, buf, data0, cerr, pw, parsed, parts, clientVars, facadeVars, replyVars>>

\* ParseInfo(line, p).
DoParseInfo(p) ==
    /\ line # <<>>
    /\ parsed = NotParsed
    /\ LET r == ParseInfo(line, p) IN
        parsed' = [info |-> r.info, err |-> r.err, password |-> p]
    /\ ops' = Append(ops, "ParseInfo")
    /\ UNCHANGED <<info, buf, data0, cerr, pw, line, parts, clientVars, facadeVars, replyVars>>

----------------------------------------------------------------------------
(* The reply of a request: the part of Client.send from "// response" to the  *)
(* end of its switch on the reply's message type.                             *)

Digits == <<"0", "1", "2", "3", "4", "5", "6", "7", "8", "9">>

DigitVal(c) ==
    IF \E d \in 1..10 : Digits[d] = c
    THEN (CHOOSE d \in 1..10 : Digits[d] = c) - 1
    ELSE -1

RECURSIVE Decimal(_)
Decimal(l) ==
    IF l = <<>> THEN 0
    ELSE 10 * Decimal(SubSeq(l, 1, Len(l) - 1)) + DigitVal(l[Len(l)])

\* strconv.Atoi: an optional sign and decimal digits.
Atoi(l) ==
    LET signed == l # <<>> /\ l[1] \in {"+", "-"}
        digits == IF signed THEN Tail(l) ELSE l
    IN IF digits = <<>> \/ \E j \in 1..Len(digits) : DigitVal(digits[j]) = -1
       THEN [ok |-> FALSE, n |-> 0]
       ELSE [ok |-> TRUE,
             n |-> IF signed /\ l[1] = "-" THEN 0 - Decimal(digits)
                   ELSE Decimal(digits)]

\* Header keys of a reply: a header block is a function from some of them to
\* their values (characters).
HeaderKeys ==
    {"Response-Action", "Notification-ID", "Error-Code", "Error-Description",
     "X-Extra"}

\* The values a server may give to a key.
HeaderValues(k) ==
    CASE k = "Response-Action" -> {<<"N", "O", "T", "I", "F", "Y">>}
      [] k = "Notification-ID" -> {<<"1", "7">>}
      [] k = "Error-Code" -> {<<"4", "0", "0">>, <<"-", "1">>, <<"4", "x">>, <<>>}
      [] k = "Error-Description" -> {<<"x">>}
      [] k = "X-Extra" -> {<<"x">>}

Headers ==
    UNION {{h \in [K -> UNION {HeaderValues(k) : k \in K}] :
               \A k \in K : h[k] \in HeaderValues(k)} : K \in SUBSET HeaderKeys}

\* textproto.MIMEHeader.Get: "" for a key that is not there.
Get(h, k) == IF k \in DOMAIN h THEN h[k] ELSE <<>>

\* A Header that keeps every key.
Remaining_All(h, keys) == h

\* hdr after hdr.Del of keys: resp.Header and Error.Header are that same map.
Remaining(h, keys) == [k \in DOMAIN h \ keys |-> h[k]]

\* What becomes of the reply before its message type is looked at: "ok", or
\* the error of r.ReadLine ("read") or of ParseInfo.
ReplyHeads == {"ok", "read", "ErrProtocol", "ErrPassword"}

\* How the body of a reply reads: "ok" (a header block and its blank line),
\* "eof" (the bytes end after the headers read so far), "badheader"
\* (ReadMIMEHeader fails otherwise) and, for an encrypted reply, "read"
\* (util.ReadBytes fails) and "pkcs7" (Decrypt fails).
ReplyBodies == {"ok", "eof", "badheader", "read", "pkcs7"}

Replies ==
    {r \in [head : ReplyHeads, type : InfoTypes, enc : BOOLEAN, body : ReplyBodies,
            hdr : Headers] :
        /\ r.head # "ok" => (r.type = "-OK" /\ ~r.enc /\ r.body = "ok" /\ r.hdr = <<>>)
        /\ r.body \in {"read", "pkcs7"} => r.enc}

\* resp == nil.
NoResponse == [set |-> FALSE, Action |-> <<>>, ID |-> <<>>, Header |-> <<>>]

\* err is not an Error.
NoError == [set |-> FALSE, Code |-> 0, Description |-> <<>>, Header |-> <<>>]

ReplyFails(e) == [resp |-> NoResponse, err |-> e, error |-> NoError]

\* An -ERROR reply that is handled whether encrypted or not.
ErrorRefused_Never(enc) == FALSE

\* case "-ERROR": if i.EncryptionAlgorithm != NONE { err = ErrProtocol }.
ErrorRefused(enc) == enc

\* send from the reply's information line on: resp, the kind of err ("nil",
\* "read", ParseInfo's error, "ErrPKCS7", "header" for ReadMIMEHeader's error,
\* "atoi" for strconv.Atoi's error, "Error") and the Error if err is one.
HandleReply(r) ==
    IF r.head # "ok" THEN ReplyFails(r.head)
    ELSE IF r.type = "-OK"
    THEN IF r.enc /\ r.body = "read" THEN ReplyFails("read")
         ELSE IF r.enc /\ r.body = "pkcs7" THEN ReplyFails("ErrPKCS7")
         ELSE IF r.body = "badheader" THEN ReplyFails("header")
         ELSE [resp |-> [set |-> TRUE,
                         Action |-> Get(r.hdr, "Response-Action"),
                         ID |-> Get(r.hdr, "Notification-ID"),
                         Header |-> Remaining(r.hdr,
                                        {"Response-Action", "Notification-ID"})],
               err |-> "nil", error |-> NoError]
    ELSE IF r.type = "-ERROR"
    THEN IF ErrorRefused(r.enc) THEN ReplyFails("ErrProtocol")
         ELSE IF r.body = "badheader" THEN ReplyFails("header")
         ELSE LET code == Atoi(Get(r.hdr, "Error-Code")) IN
              IF ~code.ok THEN ReplyFails("atoi")
              ELSE [resp |-> NoResponse, err |-> "Error",
                    error |-> [set |-> TRUE, Code |-> code.n,
                               Description |-> Get(r.hdr, "Error-Description"),
                               Header |-> Remaining(r.hdr,
                                              {"Error-Code", "Error-Description"})]]
    ELSE ReplyFails("ErrProtocol")

\* The values of send's err at its "socket callback" test: the error of
\* net.Dial, the error of SetPassword, and what the reply makes of it.
Outcomes == {"dial", "setpassword"} \cup {HandleReply(r).err : r \in Replies}

\* send has not handled the reply.
NotHandled == ReplyFails("none")

\* No reply is studied.
ReplyIdle ==
    /\ reply = [head |-> "read", type |-> "-OK", enc |-> FALSE, body |-> "ok",
                hdr |-> <<>>]
    /\ outcome = NotHandled

ReplyInit ==
    /\ reply \in Replies
    /\ outcome = NotHandled

\* send reads and handles the reply.
DoHandleReply ==
    /\ outcome = NotHandled
    /\ outcome' = HandleReply(reply)
    /\ UNCHANGED <<reply, restRpl>>

----------------------------------------------------------------------------
(* Client.callback: one message on a retained connection *)

\* c.Name.
ClientName == <<"a", "p", "p">>

CLICKED == 1

CLOSED == 2

TIMEOUT == 3

\* The six names of a result, and spellings of w: the letters at the positions
\* S in lower case.
ResultWords ==
    {<<"C", "L", "I", "C", "K">>, <<"C", "L", "I", "C", "K", "E", "D">>,
     <<"C", "L", "O", "S", "E">>, <<"C", "L", "O", "S", "E", "D">>,
     <<"T", "I", "M", "E", "O", "U", "T">>, <<"T", "I", "M", "E", "D", "O", "U", "T">>}

Spelled(w, S) ==
    [j \in 1..Len(w) |->
        IF j \in S /\ \E n \in 1..26 : Upper[n] = w[j]
        THEN Lower[CHOOSE n \in 1..26 : Upper[n] = w[j]]
        ELSE w[j]]

Spellings(w) ==
    {Spelled(w, S) : S \in {{}, 1..Len(w), {1}, {j \in 1..Len(w) : j % 2 = 0}}}

CallbackKeys ==
    {"Application-Name", "Notification-ID", "Notification-Callback-Result", "X-Extra"}

\* The values a server may give to a key.
CallbackValues(k) ==
    CASE k = "Application-Name" -> {<<"g">>}
      [] k = "Notification-ID" -> {<<"1", "7">>}
      [] k = "Notification-Callback-Result" ->
             UNION {Spellings(w) : w \in ResultWords}
                 \cup {<<"x">>, <<"C", "L", "I", "C", "K", "S">>}
      [] k = "X-Extra" -> {<<"x">>}

CallbackHeaders ==
    UNION {{h \in [K -> UNION {CallbackValues(k) : k \in K}] :
               \A k \in K : h[k] \in CallbackValues(k)} : K \in SUBSET CallbackKeys}

\* The Info a peer prepares for its message: a type, NONE or DES, MD5 and the
\* peer's password.
PeerInfos ==
    {SetPassword(NewInfo(t, ea, "MD5"), p, [j \in 1..16 |-> j]).info :
        t \in {"-CALLBACK", "-OK"}, ea \in {"NONE", "DES"}, p \in Passwords}

\* "GNTP/1.0 _ NONE", a line ParseInfo does not accept.
JunkLine == Prefix \o Version10 \o <<" ", "_", " ", "N", "O", "N", "E">>

\* What a peer puts between the information line of an encrypted message and
\* "\r\n\r\n": nothing at all before closing ("missing"), no byte ("empty"),
\* bytes that are not whole blocks ("partial"), one block whose plaintext does
\* not end in padding ("badpad"), one block whose plaintext is all zero
\* ("zeropad"), or an encrypted text ("good").
SealedKinds == {"missing", "empty", "partial", "badpad", "zeropad", "good"}

SealedBytes(i, s) ==
    LET bs == i.cipher.bs IN
    CASE s = "empty" -> <<>>
      [] s = "partial" -> Fill(7, bs - 1)
      [] s = "badpad" ->
             CBCEncrypt(i.cipher.key, bs, i.IV, [j \in 1..bs |-> (j - 1) % (bs \div 2)])
      [] s = "zeropad" -> CBCEncrypt(i.cipher.key, bs, i.IV, Fill(0, bs))
      [] s = "good" -> Encrypt(i, <<88, 58, 32, 120>>)
      [] s = "missing" -> <<>>

\* One message as the reader meets it: whether r.ReadLine() returns a line, the
\* line (JunkLine, or the peer's Info as a string), the bytes of an encrypted
\* body, how the header block reads ("ok", "eof": the bytes end before a blank
\* line, "badheader": a line without a colon) and its keys; with c.Password.
Frames ==
    {f \in [readline : BOOLEAN, junk : BOOLEAN, peer : PeerInfos, sealed : SealedKinds,
            body : {"ok", "eof", "badheader"}, hdr : CallbackHeaders,
            password : Passwords] :
        /\ f.peer.cipher = NoCipher => f.sealed = "good"
        /\ f.sealed # "good" => (f.body = "eof" /\ f.hdr = <<>>)
        /\ f.junk => (f.peer = NewInfo("-OK", "NONE", "MD5") /\ f.hdr = <<>>)
        /\ ~f.readline => (f.junk /\ f.body = "eof" /\ f.password = <<>>)}

FrameLine(f) == IF f.junk THEN JunkLine ELSE InfoString(f.peer)

\* No Callback was built.
NoCallback ==
    [set |-> FALSE, Name |-> <<>>, ID |-> <<>>, Context |-> <<>>, ContextType |-> <<>>,
     Result |-> 0, Header |-> <<>>]

\* if cb.Name == "" { cb.Name = c.Name }.
NameOf(n) == IF n = <<>> THEN ClientName ELSE n

\* A switch on the value as it was sent.
ResultOf_AsSent(v) ==
    IF v \in {<<"C", "L", "I", "C", "K", "E", "D">>, <<"C", "L", "I", "C", "K">>}
    THEN CLICKED
    ELSE IF v \in {<<"C", "L", "O", "S", "E", "D">>, <<"C", "L", "O", "S", "E">>}
    THEN CLOSED
    ELSE IF v \in {<<"T", "I", "M", "E", "D", "O", "U", "T">>,
                   <<"T", "I", "M", "E", "O", "U", "T">>}
    THEN TIMEOUT
    ELSE 0

\* The switch on strings.ToUpper(hdr.Get("Notification-Callback-Result")).
ResultOf(v) ==
    LET u == ToUpper(v) IN
    IF u \in {<<"C", "L", "I", "C", "K", "E", "D">>, <<"C", "L", "I", "C", "K">>}
    THEN CLICKED
    ELSE IF u \in {<<"C", "L", "O", "S", "E", "D">>, <<"C", "L", "O", "S", "E">>}
    THEN CLOSED
    ELSE IF u \in {<<"T", "I", "M", "E", "D", "O", "U", "T">>,
                   <<"T", "I", "M", "E", "O", "U", "T">>}
    THEN TIMEOUT
    ELSE 0

\* The Callback built from hdr. The headers of Frames carry no
\* Notification-Callback-Timestamp, so time.Parse fails and nothing is deleted
\* for it.
BuildCallback(hdr) ==
    LET res == ResultOf(Get(hdr, "Notification-Callback-Result"))
        gone == {"Application-Name", "Notification-ID", "Notification-Callback-Context",
                 "Notification-Callback-Context-Type"}
                    \cup (IF res # 0 THEN {"Notification-Callback-Result"} ELSE {})
    IN [set |-> TRUE,
        Name |-> NameOf(Get(hdr, "Application-Name")),
        ID |-> Get(hdr, "Notification-ID"),
        Context |-> Get(hdr, "Notification-Callback-Context"),
        ContextType |-> Get(hdr, "Notification-Callback-Context-Type"),
        Result |-> res,
        Header |-> Remaining(hdr, gone)]

\* callback returns before its select.
Returns == [pc |-> "return", cb |-> NoCallback]

\* "if err != nil && err != io.EOF { return }" after r.ReadMIMEHeader().
HeaderRefused(body) == body = "badheader"

\* callback from r.ReadLine() to its select: where it ends ("return", "select",
\* or "panic" when Decrypt panics in the goroutine) and the Callback it built.
ReadCallback(f) ==
    IF ~f.readline THEN Returns
    ELSE LET p == ParseInfo(FrameLine(f), f.password) IN
         IF p.err # "nil" THEN Returns
         ELSE IF p.info.MessageType # "-CALLBACK" THEN Returns
         ELSE LET d == IF p.info.EncryptionAlgorithm # "NONE" /\ f.sealed # "missing"
                       THEN Decrypt(p.info, SealedBytes(f.peer, f.sealed))
                       ELSE [out |-> <<>>, err |-> "nil"]
              IN IF p.info.EncryptionAlgorithm # "NONE" /\ f.sealed = "missing"
                 THEN Returns
                 ELSE IF d.err = "panic" THEN [pc |-> "panic", cb |-> NoCallback]
                 ELSE IF d.err # "nil" THEN Returns
                 ELSE IF HeaderRefused(f.body) THEN Returns
                 ELSE [pc |-> "select", cb |-> BuildCallback(f.hdr)]

\* callback has not run.
NotHeard == [pc |-> "none", cb |-> NoCallback]

\* No message is studied.
FrameIdle ==
    /\ frame = [readline |-> FALSE, junk |-> TRUE, peer |-> NewInfo("-OK", "NONE", "MD5"),
                sealed |-> "good", body |-> "eof", hdr |-> <<>>, password |-> <<>>]
    /\ heard = NotHeard

FrameInit ==
    /\ frame \in Frames
    /\ heard = NotHeard

\* The reader runs up to its select, or returns, or panics.
DoReadCallback ==
    /\ heard = NotHeard
    /\ heard' = ReadCallback(frame)
    /\ UNCHANGED <<frame, restFrame>>

----------------------------------------------------------------------------
(* notifier.Register: the icon and the options *)

\* The width of int and uint on the platform the program is built for.
IntBits == {32, 64}

SignedTypes == {"int", "int8", "int16", "int32", "int64"}

UnsignedTypes == {"uint", "uint8", "uint16", "uint32", "uint64"}

IntTypes == SignedTypes \cup UnsignedTypes

\* The other dynamic types an option value is given with here.
OtherTypes ==
    {"nil", "string", "bool", "float64", "map[string]string", "map[string]interface{}",
     "IconType"}

TypeBits(t, bits) ==
    CASE t \in {"int", "uint"} -> bits
      [] t \in {"int8", "uint8"} -> 8
      [] t \in {"int16", "uint16"} -> 16
      [] t \in {"int32", "uint32"} -> 32
      [] t \in {"int64", "uint64"} -> 64

\* An integer of up to 64 bits: its sign and its magnitude in four 16-bit
\* limbs, the most significant first.
Num(neg, mag) == [neg |-> neg, mag |-> mag]

\* The integer n, for -65535 <= n <= 65535.
Small(n) == Num(n < 0, <<0, 0, 0, IF n < 0 THEN -n ELSE n>>)

\* The magnitudes 2^e and 2^e - 1, for e <= 64.
Pow2(e) == [j \in 1..4 |-> IF 4 - j = e \div 16 THEN 2 ^ (e % 16) ELSE 0]

Pow2Less1(e) ==
    [j \in 1..4 |-> IF 4 - j < e \div 16 THEN 65535
                    ELSE IF 4 - j = e \div 16 THEN 2 ^ (e % 16) - 1 ELSE 0]

\* a <= b for magnitudes.
LeMag(a, b) ==
    \/ a = b
    \/ \E j \in 1..4 : a[j] < b[j] /\ \A i \in 1..(j - 1) : a[i] = b[i]

\* -2^(e-1) <= v <= 2^(e-1) - 1.
FitsSigned(v, e) ==
    IF v.neg THEN LeMag(v.mag, Pow2(e - 1)) ELSE LeMag(v.mag, Pow2Less1(e - 1))

\* 0 <= v <= 2^e - 1.
FitsUnsigned(v, e) == (~v.neg \/ v.mag = <<0, 0, 0, 0>>) /\ LeMag(v.mag, Pow2Less1(e))

\* The values of an integer type.
InType(t, v, bits) ==
    IF t \in SignedTypes THEN FitsSigned(v, TypeBits(t, bits))
    ELSE FitsUnsigned(v, TypeBits(t, bits))

\* math.MinInt32 and math.MaxInt32.
MinInt32 == Num(TRUE, Pow2(31))

MaxInt32 == Num(FALSE, Pow2Less1(31))

\* math.MinInt32 - 1, math.MinInt32, -1, 0, 1, 127, math.MaxInt32,
\* math.MaxInt32 + 1 and 2^32.
IntSamples ==
    {Num(TRUE, <<0, 0, 32768, 1>>), MinInt32, Small(-1), Small(0), Small(1), Small(127),
     MaxInt32, Num(FALSE, Pow2(31)), Num(FALSE, Pow2(32))}

\* Values of the other types: two of each (false and true for a bool).
OtherSamples == {Small(0), Small(1)}

\* Option values: a dynamic type and a value (of the other types, two values:
\* 0 and 1, false and true for a bool).
OptValues(bits) ==
    {[type |-> t, val |-> v] : t \in OtherTypes, v \in OtherSamples}
        \cup {x \in [type : IntTypes, val : IntSamples] : InType(x.type, x.val, bits)}

\* The option keys a backend looks up, in the order of its Register.
OptKeys(b) ==
    CASE b = "gntp" -> <<"gntp:display-name", "gntp:enabled", "gntp:sticky",
                         "gntp:priority">>
      [] b = "freedesktop" -> <<"freedesktop:actions", "freedesktop:hints",
                                "freedesktop:timeout">>
      [] b = "windows" -> <<"windows:fallback-icon", "windows:sound">>

\* A key no backend looks up.
OtherKey == "x:other"

\* The icon argument, by what Register's type switches make of it, and the
\* version of shell32.dll (Windows only).
IconKinds(b) ==
    CASE b = "gntp" -> {"nil"}
      [] b = "freedesktop" -> {"nil", "other"}
      [] b = "windows" -> {"nil", "Icon", "other"}

ShellVersions(b) == IF b = "windows" THEN {"5.0.0", "6.0.0", "6.0.6"} ELSE {"6.0.6"}

\* The opts of a call: at most one key of the backend and at most OtherKey.
OptMaps(b, bits) ==
    LET own == {<<>>} \cup {[k \in {OptKeys(b)[j]} |-> v] :
                               j \in 1..Len(OptKeys(b)), v \in OptValues(bits)}
        other == {<<>>} \cup {[k \in {OtherKey} |-> v] :
                                 v \in {[type |-> "bool", val |-> Small(1)],
                                        [type |-> "int", val |-> Small(1)]}}
    IN {o1 @@ o2 : o1 \in own, o2 \in other}

RegisterCalls ==
    UNION {[b : {b}, bits : {bits}, icon : IconKinds(b), shell : ShellVersions(b),
            opts : OptMaps(b, bits)] : b \in Backends, bits \in IntBits}

\* A lookup that finds nothing.
Has_Never(opts, k) == FALSE

\* "v, ok := opts[k]": ok.
Has(opts, k) == k \in DOMAIN opts

\* Register returns before "p.ev[event] = n".
Rejected(kind, k, expects) ==
    [err |-> [kind |-> kind, key |-> k, expects |-> expects], stored |-> FALSE,
     n |-> [none |-> TRUE]]

\* fmt.Errorf("%q expects <type>: %T", k, v).
Expects(k, t) == Rejected("expects", k, t)

\* "p.ev[event] = n" and, but for the request of the GNTP facade, "return nil".
Stored(n) ==
    [err |-> [kind |-> "nil", key |-> "", expects |-> ""], stored |-> TRUE, n |-> n]

\* The type switch on gntp:priority: "case int: i, ok = v, true", i2i for the
\* other signed types and u2i for the unsigned ones.
PriorityFits(v, bits) ==
    IF v.type = "int" THEN TRUE
    ELSE IF v.type \in SignedTypes THEN FitsSigned(v.val, 32)
    ELSE FitsUnsigned(v.val, 31)

\* v2i of the freedesktop package: every integer type goes through a range test
\* (int32 is in range as it is).
V2iFits(v) ==
    IF v.type \in SignedTypes THEN FitsSigned(v.val, 32)
    ELSE FitsUnsigned(v.val, 31)

\* notifier.Register of the gntp package up to "p.ev[event] = n".
GntpRegister(c) ==
    LET o == c.opts
        k1 == "gntp:display-name"
        k2 == "gntp:enabled"
        k3 == "gntp:sticky"
        k4 == "gntp:priority"
    IN IF Has(o, k1) /\ o[k1].type # "string" THEN Expects(k1, "string")
       ELSE IF Has(o, k2) /\ o[k2].type # "bool" THEN Expects(k2, "bool")
       ELSE IF Has(o, k3) /\ o[k3].type # "bool" THEN Expects(k3, "bool")
       ELSE IF Has(o, k4) /\ o[k4].type \notin IntTypes THEN Expects(k4, "int")
       ELSE IF Has(o, k4) /\ ~PriorityFits(o[k4], c.bits)
       THEN Rejected("overflows", k4, "int")
       ELSE Stored([DisplayName |-> IF Has(o, k1) THEN o[k1].val ELSE Small(0),
                    Enabled |-> IF Has(o, k2) THEN o[k2].val = Small(1) ELSE TRUE,
                    Sticky |-> IF Has(o, k3) THEN o[k3].val = Small(1) ELSE FALSE,
                    Priority |-> IF Has(o, k4) THEN o[k4].val ELSE Small(0)])

\* notifier.Register of the freedesktop package. A hints value of 1 holds a
\* hint that n.Hint refuses.
FreedesktopRegister(c) ==
    LET o == c.opts
        k1 == "freedesktop:actions"
        k2 == "freedesktop:hints"
        k3 == "freedesktop:timeout"
    IN IF c.icon = "other" THEN Rejected("icon", "", "")
       ELSE IF Has(o, k1) /\ o[k1].type # "map[string]string"
       THEN Expects(k1, "map[string]string")
       ELSE IF Has(o, k2) /\ o[k2].type # "map[string]interface{}"
       THEN Expects(k2, "map[string]interface{}")
       ELSE IF Has(o, k2) /\ o[k2].val = Small(1) THEN Rejected("hint", k2, "")
       ELSE IF Has(o, k3) /\ ~(o[k3].type \in IntTypes /\ V2iFits(o[k3]))
       THEN Expects(k3, "int32")
       ELSE Stored([Actions |-> Has(o, k1), Hints |-> Has(o, k2),
                    Timeout |-> IF Has(o, k3) THEN o[k3].val ELSE Small(-1)])

\* IconUser IconType = sys.NIIF_USER.
IconUser == 4

\* notifier.Register of the windows package, for an icon that loads.
WindowsRegister(c) ==
    LET o == c.opts
        k1 == "windows:fallback-icon"
        k2 == "windows:sound"
        fallback == c.icon = "Icon" /\ c.shell # "6.0.6"
    IN IF c.icon = "other" THEN Rejected("icon", "", "")
       ELSE IF fallback /\ Has(o, k1) /\ o[k1].type # "IconType"
       THEN Expects(k1, "IconType")
       ELSE IF Has(o, k2) /\ o[k2].type # "bool" THEN Expects(k2, "bool")
       ELSE Stored([IconType |-> IF c.icon = "Icon" /\ ~fallback THEN Small(IconUser)
                                 ELSE IF fallback /\ Has(o, k1) THEN o[k1].val
                                 ELSE Small(0),
                    Sound |-> IF Has(o, k2) /\ c.shell # "5.0.0"
                              THEN o[k2].val = Small(1) ELSE TRUE])

RegisterOptions(c) ==
    CASE c.b = "gntp" -> GntpRegister(c)
      [] c.b = "freedesktop" -> FreedesktopRegister(c)
      [] c.b = "windows" -> WindowsRegister(c)

\* No call was made.
NotRegistered == Rejected("none", "", "")

\* No call is studied.
OptionIdle ==
    /\ regIn = [b |-> "gntp", bits |-> 64, icon |-> "nil", shell |-> "6.0.6",
                opts |-> <<>>]
    /\ regOut = NotRegistered

OptionInit ==
    /\ regIn \in RegisterCalls
    /\ regOut = NotRegistered

\* The Register call runs up to its storing of the template.
DoRegister ==
    /\ regOut = NotRegistered
    /\ regOut' = RegisterOptions(regIn)
    /\ UNCHANGED <<regIn, restOpt>>

----------------------------------------------------------------------------
(* freedesktop: Client.Close and Client.signal *)

\* Goroutines that call Close, and the Close calls each makes in a run.
Callers == 1..2

MaxCloses == 2

\* Signals the bus hands to the client in a run.
MaxSignals == 3

\* notificationClosed and actionInvoked; any other signal is "other".
Kinds == {"closed", "invoked"}

\* The state New leaves: the channels made, c.wg.Add(1), go c.signal(); in
\* signal, closed and invoked nil and each buffer holding one zero value.
FdNew ==
    /\ fdMu = 0
    /\ fdDone = FALSE
    /\ fdWg = 1
    /\ sigPc = "select"
    /\ connCloses = 0
    /\ closePc = [c \in Callers |-> "idle"]
    /\ closeCalls = [c \in Callers |-> 0]
    /\ closeRet = [c \in Callers |-> "none"]
    /\ chOn = [k \in Kinds |-> FALSE]
    /\ sbuf = [k \in Kinds |-> <<0>>]
    /\ nsig = 0
    /\ acc = [k \in Kinds |-> <<>>]
    /\ got = [k \in Kinds |-> <<>>]

\* c.mu.Lock() in Close.
CloseLock(c) ==
    /\ closePc[c] = "idle"
    /\ closeCalls[c] < MaxCloses
    /\ fdMu = 0
    /\ fdMu' = c
    /\ closePc' = [closePc EXCEPT ![c] = "locked"]
    /\ closeCalls' = [closeCalls EXCEPT ![c] = @ + 1]
    /\ UNCHANGED <<fdDone, fdWg, sigPc, connCloses, closeRet, chOn, sbuf, nsig, acc, got,
                   restFd>>

\* A Close that never takes c.done for closed.
DoneClosed_Never == FALSE

\* "case <-c.done:" of the select in Close can proceed.
DoneClosed == fdDone

\* select { case <-c.done: c.mu.Unlock(); return nil; default: close(c.done) }
\* and, after the default case, c.mu.Unlock().
CloseSelect(c) ==
    /\ closePc[c] = "locked"
    /\ fdMu = c
    /\ fdMu' = 0
    /\ IF DoneClosed
       THEN /\ closePc' = [closePc EXCEPT ![c] = "idle"]
            /\ closeRet' = [closeRet EXCEPT ![c] = "early"]
            /\ fdDone' = fdDone
       ELSE /\ closePc' = [closePc EXCEPT ![c] = "wait"]
            /\ closeRet' = closeRet
            /\ fdDone' = TRUE
    /\ UNCHANGED <<fdWg, sigPc, connCloses, closeCalls, chOn, sbuf, nsig, acc, got,
                   restFd>>

\* c.wg.Wait() returns.
CloseWait(c) ==
    /\ closePc[c] = "wait"
    /\ fdWg = 0
    /\ closePc' = [closePc EXCEPT ![c] = "conn"]
    /\ UNCHANGED <<fdMu, fdDone, fdWg, sigPc, connCloses, closeCalls, closeRet, chOn,
                   sbuf, nsig, acc, got, restFd>>

\* return c.conn.Close().
CloseConn(c) ==
    /\ closePc[c] = "conn"
    /\ connCloses' = connCloses + 1
    /\ closePc' = [closePc EXCEPT ![c] = "idle"]
    /\ closeRet' = [closeRet EXCEPT ![c] = "conn"]
    /\ UNCHANGED <<fdMu, fdDone, fdWg, sigPc, closeCalls, chOn, sbuf, nsig, acc, got,
                   restFd>>

\* A goroutine that appends to the buffer as it is.
Buffered_KeepFirst(on, b, x) == Append(b, x)

\* "if closed == nil { closed = c.NotificationClosed; closedBuf = closedBuf[1:] }"
\* and the append (the same for invoked).
Buffered(on, b, x) == Append(IF on THEN b ELSE Tail(b), x)

\* "case sig := <-c.c": the n-th signal the bus sends is taken; one of the two
\* kinds with the object's path is buffered, any other is dropped.
SigAccept(kind) ==
    /\ sigPc = "select"
    /\ nsig < MaxSignals
    /\ nsig' = nsig + 1
    /\ IF kind \in Kinds
       THEN /\ chOn' = [chOn EXCEPT ![kind] = TRUE]
            /\ sbuf' = [sbuf EXCEPT ![kind] = Buffered(chOn[kind], @, nsig + 1)]
            /\ acc' = [acc EXCEPT ![kind] = Append(@, nsig + 1)]
       ELSE UNCHANGED <<chOn, sbuf, acc>>
    /\ UNCHANGED <<fdMu, fdDone, fdWg, sigPc, connCloses, closePc, closeCalls, closeRet,
                   got, restFd>>

\* "case closed <- closedBuf[0]" (and the same for invoked) with a consumer
\* receiving from the channel: the send on a nil channel never proceeds.
SigSend(kind) ==
    /\ sigPc = "select"
    /\ chOn[kind]
    /\ got' = [got EXCEPT ![kind] = Append(@, sbuf[kind][1])]
    /\ IF Len(sbuf[kind]) = 1
       THEN /\ chOn' = [chOn EXCEPT ![kind] = FALSE]
            /\ sbuf' = sbuf
       ELSE /\ chOn' = chOn
            /\ sbuf' = [sbuf EXCEPT ![kind] = Tail(@)]
    /\ UNCHANGED <<fdMu, fdDone, fdWg, sigPc, connCloses, closePc, closeCalls, closeRet,
                   nsig, acc, restFd>>

\* "case <-c.done: return", and the deferred c.wg.Done().
SigDone ==
    /\ sigPc = "select"
    /\ fdDone
    /\ sigPc' = "exited"
    /\ fdWg' = fdWg - 1
    /\ UNCHANGED <<fdMu, fdDone, connCloses, closePc, closeCalls, closeRet, chOn, sbuf,
                   nsig, acc, got, restFd>>

----------------------------------------------------------------------------
(* freedesktop: Notification.Action *)

\* Action calls on one Notification in a run.
MaxActions == 3

\* Keys and labels of the calls; "a" is a key and a label.
ActionKeys == {"a", "b"}

ActionLabels == {"a", "L1", "L2"}

\* var n Notification: Actions is nil.
ActionsNew ==
    /\ actions = <<>>
    /\ calls = <<>>

\* An Action that looks for the key at every index.
KeyAt_AnyIndex(a, key) ==
    IF \E i \in 1..(Len(a) - 1) : a[i] = key
    THEN CHOOSE i \in 1..(Len(a) - 1) : a[i] = key /\ \A j \in 1..(i - 1) : a[j] # key
    ELSE 0

\* "for i := 0; i < len(n.Actions); i += 2 { if n.Actions[i] == key": the first
\* such i, as a 1-based index, or 0.
KeyAt(a, key) ==
    LET at == {i \in 1..Len(a) : i % 2 = 1 /\ a[i] = key}
    IN IF at = {} THEN 0 ELSE CHOOSE i \in at : \A j \in at : i <= j

\* Notification.Action(key, label).
DoAction(key, label) ==
    /\ Len(calls) < MaxActions
    /\ calls' = Append(calls, <<key, label>>)
    /\ LET i == KeyAt(actions, key) IN
        actions' = IF i # 0 THEN [actions EXCEPT ![i + 1] = label]
                   ELSE actions \o <<key, label>>
    /\ UNCHANGED <<restAct>>

----------------------------------------------------------------------------
(* util.Convert *)

\* The image types of the image package that hold pixels.
ImageTypes ==
    {"CMYK", "Gray", "Gray16", "NRGBA", "NRGBA64", "NYCbCrA", "Paletted", "RGBA",
     "RGBA64", "YCbCr", "Alpha", "Alpha16"}

\* img.Bounds(): Min and Max, for rectangles in a small plane.
Rectangles ==
    {[Min |-> m, Max |-> <<m[1] + w, m[2] + h>>] :
        m \in {0, 1} \X {0, 1}, w \in 0..2, h \in 0..2}

Images == [type : ImageTypes, bounds : Rectangles]

\* The types the switch of Convert has a case for.
Handled == {"CMYK", "Gray", "Gray16", "NRGBA"}

\* util.Convert: img itself for a Gray or an NRGBA, a new Gray (for a Gray16) or
\* NRGBA of img.Bounds() for the other types with a case, and the error of the
\* default case.
Convert(i) ==
    IF i.type \notin Handled THEN [ok |-> FALSE, out |-> i, same |-> FALSE]
    ELSE IF i.type \in {"Gray", "NRGBA"} THEN [ok |-> TRUE, out |-> i, same |-> TRUE]
    ELSE [ok |-> TRUE,
          out |-> [type |-> IF i.type = "Gray16" THEN "Gray" ELSE "NRGBA",
                   bounds |-> i.bounds],
          same |-> FALSE]

\* Convert was not called.
NotConverted == [ok |-> FALSE, out |-> [type |-> "none"], same |-> FALSE]

\* No image is studied.
ImageIdle ==
    /\ img = [type |-> "Gray", bounds |-> [Min |-> <<0, 0>>, Max |-> <<0, 0>>]]
    /\ converted = NotConverted

ImageInit ==
    /\ img \in Images
    /\ converted = NotConverted

DoConvert ==
    /\ converted = NotConverted
    /\ converted' = Convert(img)
    /\ UNCHANGED <<img, restImg>>

----------------------------------------------------------------------------
(* The accesses of Register, Notify, Reset and callback to c.cb, c.ctx,     *)
(* c.cancel and c.Header, statement by statement (gntp/gntp.go)             *)

\* Register, Notify and Reset calls in a run.
MaxCalls == 4

\* The goroutine of the callback reader that the Notify call of caller t starts.
ReaderOf(t) == t + 2

Routines == Callers \cup {ReaderOf(t) : t \in Callers}

Methods == {"Register", "Notify", "Reset"}

Resting == [op |-> "idle", at |-> "idle"]

\* The message type a method hands to send.
TypeOf(op) == IF op = "Notify" THEN "NOTIFY" ELSE "REGISTER"

\* One access: the method making it, the field, read or write, and whether the
\* goroutine making it holds c.mu at that moment.
Touch(t, field, mode) ==
    [by |-> apc[t].op, field |-> field, mode |-> mode, held |-> amu = t]

AccessNew ==
    /\ amu = 0
    /\ apc = [t \in Routines |-> Resting]
    /\ alog = {}
    /\ ncall = 0

----------------------------------------------------------------------------
(* What Client.send writes on its connection (gntp/gntp.go)                 *)

CRLF == <<13, 10>>

\* The header blocks of a run (b.Bytes()): shorter than a block, a full DES
\* block, a full AES block, and one byte more.
HeaderBlocks == {Fill(72, n) : n \in {1, 8, 16, MaxLen}}

\* The data of the resources of a run (the values of b.list).
Blobs == {<<>>, <<1, 2, 3>>, Fill(9, 16)}

\* b.list in the order the range statement visits it: up to two resources.
BlobLists == {<<>>} \cup {<<x>> : x \in Blobs} \cup {<<x, y>> : x, y \in Blobs}

\* Nothing was written.
NothingWritten ==
    [err |-> "none", line |-> <<>>, body |-> <<>>, term |-> <<>>, blobs |-> <<>>,
     last |-> <<>>]

\* "if c.EncryptionAlgorithm != NONE { data = i.Encrypt(data) }".
Sealed(ea, i, data) == IF ea # "NONE" THEN Encrypt(i, data) ELSE data

\* The writes of send for the Info i: the information line, the header block and
\* its terminator, then for each resource its Length and its data, then CRLF.
Written(r, i) ==
    [err |-> "nil",
     line |-> InfoString(i),
     body |-> Sealed(r.ea, i, r.header),
     term |-> IF r.ea # "NONE" THEN CRLF \o CRLF ELSE CRLF,
     blobs |-> [k \in 1..Len(r.list) |->
                  LET data == Sealed(r.ea, i, r.list[k]) IN
                  [id |-> k, length |-> Len(data), data |-> data]],
     last |-> CRLF]

\* send from the Info it builds to the last write before it reads the reply: if
\* SetPassword fails, send returns its error and nothing is written.
WriteRequest(r) ==
    LET sp == SetPassword(NewInfo(r.mt, r.ea, r.ha), r.password, r.salt) IN
    IF sp.err # "nil" THEN [NothingWritten EXCEPT !.err = sp.err]
    ELSE Written(r, sp.info)

\* No request is studied.
RequestIdle ==
    /\ req = [mt |-> "NOTIFY", ea |-> "NONE", ha |-> "MD5", password |-> <<>>,
              salt |-> <<>>, header |-> <<>>, list |-> <<>>]
    /\ wrote = NothingWritten

\* One request of a client with any configuration.
RequestInit ==
    /\ req \in [mt : MessageTypes, ea : EncryptionAlgorithms, ha : HashAlgorithms,
                password : Passwords, salt : Salts, header : HeaderBlocks,
                list : BlobLists]
    /\ wrote = NothingWritten

DoWriteRequest ==
    /\ wrote = NothingWritten
    /\ wrote' = WriteRequest(req)
    /\ UNCHANGED <<req, restReq>>

----------------------------------------------------------------------------
(* The writes and reads of one send call and of the callback goroutine it   *)
(* starts, on their connection (gntp/gntp.go)                               *)

\* Resources of a request (len(b.list)).
MaxBlobs == 2

\* What the server does after the request: it sends a line of one of these
\* kinds, or closes ("closed": ReadLine fails).
ServerLines == {"-OK", "-ERROR", "other", "unparsable", "closed"}

\* The send calls of a run: bodyOk is whether what follows the server's line
\* leaves err nil in the -OK case; cbBody whether the reader of the call gets
\* past its information line.
Calls ==
    [mt : MessageTypes, blobs : 0..MaxBlobs, line : ServerLines, bodyOk : BOOLEAN,
     cbBody : BOOLEAN]

Writes == {"info", "headers", "blob", "end"}

\* The position of each kind of event in info -> headers -> blobs -> end of
\* request -> reply line -> reply body -> callback line -> callback body.
Rank(e) ==
    CASE e = "info" -> 1 [] e = "headers" -> 2 [] e = "blob" -> 3 [] e = "end" -> 4
      [] e = "replyline" -> 5 [] e = "replybody" -> 6 [] e = "cbline" -> 7
      [] e = "cbbody" -> 8

\* No send call is studied.
ConnIdle ==
    /\ call = [mt |-> "REGISTER", blobs |-> 0, line |-> "closed", bodyOk |-> FALSE,
               cbBody |-> FALSE]
    /\ cpc = "done"
    /\ kpc = "none"
    /\ trace = <<>>

\* One send call whose net.Dial succeeded.
ConnInit ==
    /\ call \in Calls
    /\ cpc = "info"
    /\ kpc = "none"
    /\ trace = <<>>

----------------------------------------------------------------------------
(* The buffer of a request: buffer.Icon, buffer.Resource and                *)
(* buffer.uniqueid (gntp/gntp.go)                                           *)

\* "x-growl-resource://", 19 characters.
ResourceScheme ==
    <<"x", "-", "g", "r", "o", "w", "l", "-", "r", "e", "s", "o", "u", "r", "c", "e",
      ":", "/", "/">>

\* The values a caller gives as an icon or as a custom header: nothing, a
\* string (a URL, or one that has the form of a resource reference), bytes, a
\* reader (that yields its bytes or fails), an image (that Convert takes or
\* not), and a value of another type.
GivenValues ==
    {[kind |-> "nil"],
     [kind |-> "string", chars |-> <<"h", "t", "t", "p", ":", "/", "/", "u">>],
     [kind |-> "string", chars |-> ResourceScheme \o <<"0", "0">>],
     [kind |-> "bytes", data |-> <<1, 2, 3>>],
     [kind |-> "bytes", data |-> <<>>],
     [kind |-> "reader", data |-> <<4, 5>>, fails |-> FALSE],
     [kind |-> "reader", data |-> <<4>>, fails |-> TRUE],
     [kind |-> "image", type |-> "Gray"],
     [kind |-> "image", type |-> "RGBA"],
     [kind |-> "int", chars |-> <<"7">>]}

\* What png.Encode writes for an image: the signature and its content.
Png(m) == <<137, 80, 78, 71>> \o (IF m.type = "Gray" THEN <<0>> ELSE <<6>>)

\* An identifier kept whole as the key of b.list.
ListKey_Whole(id) == id

\* id[19:], the key of b.list.
ListKey(id) == SubSeq(id, Len(ResourceScheme) + 1, Len(id))

\* b.list[key] = data.
Put(list, key, data) == {e \in list : e.id # key} \cup {[id |-> key, data |-> data]}

\* buffer.uniqueid: the identifier, the error and b.list afterwards.
UniqueId(ha, list, data) ==
    IF ha \notin HashAlgorithms THEN [id |-> <<>>, err |-> "ErrHash", list |-> list]
    ELSE LET id == ResourceScheme \o HexEncode(Digest(ha, data)) IN
         [id |-> id, err |-> "nil", list |-> Put(list, ListKey(id), data)]

Plain(id, list) == [id |-> id, err |-> "nil", list |-> list]

\* buffer.Icon.
BufferIcon(ha, list, v) ==
    CASE v.kind = "nil" -> Plain(<<>>, list)
      [] v.kind = "string" -> Plain(v.chars, list)
      [] v.kind = "bytes" -> UniqueId(ha, list, v.data)
      [] v.kind = "image" ->
            LET c == Convert([type |-> v.type,
                              bounds |-> [Min |-> <<0, 0>>, Max |-> <<1, 1>>]]) IN
            IF ~c.ok THEN [id |-> <<>>, err |-> "unsupported image", list |-> list]
            ELSE UniqueId(ha, list, Png(c.out))
      [] v.kind = "reader" ->
            IF v.fails THEN [id |-> <<>>, err |-> "read", list |-> list]
            ELSE UniqueId(ha, list, v.data)
      [] OTHER -> [id |-> <<>>, err |-> "unsupported icon", list |-> list]

\* buffer.Resource.
BufferResource(ha, list, v) ==
    CASE v.kind = "bytes" -> UniqueId(ha, list, v.data)
      [] v.kind = "reader" ->
            IF v.fails THEN [id |-> <<>>, err |-> "read", list |-> list]
            ELSE UniqueId(ha, list, v.data)
      [] OTHER -> Plain(<<>>, list)

\* The values of a call in the order the method goes through them, each with
\* the header it is for: Register takes c.Icon, c.Header and n.Icon, Notify
\* n.Icon and c.Header.
Items(r) ==
    IF r.op = "Register"
    THEN <<[key |-> "Application-Icon", v |-> r.icon],
           [key |-> "X-Custom", v |-> r.custom],
           [key |-> "Notification-Icon", v |-> r.nicon]>>
    ELSE <<[key |-> "Notification-Icon", v |-> r.nicon],
           [key |-> "X-Custom", v |-> r.custom]>>

\* What a custom header of value v is written with when Resource returned id:
\* the identifier, or the value as %v prints it (an image is a pointer).
CustomValue(v, id) ==
    IF id # <<>> THEN id
    ELSE IF v.kind \in {"string", "int"} THEN v.chars
    ELSE IF v.kind = "nil" THEN <<"<", "n", "i", "l", ">">>
    ELSE <<"&">>

\* The buffer after the first n items: an error ends the call.
RECURSIVE Filled(_, _)
Filled(r, n) ==
    IF n = 0 THEN [err |-> "nil", headers |-> <<>>, list |-> {}]
    ELSE LET b == Filled(r, n - 1)
             it == Items(r)[n]
         IN IF b.err # "nil" THEN b
            ELSE IF it.key = "X-Custom"
            THEN LET x == BufferResource(r.ha, b.list, it.v) IN
                 IF x.err # "nil" THEN [b EXCEPT !.err = x.err]
                 ELSE [err |-> "nil",
                       headers |-> Append(b.headers,
                                          [key |-> it.key, value |-> CustomValue(it.v, x.id),
                                           given |-> it.v.kind]),
                       list |-> x.list]
            ELSE LET x == BufferIcon(r.ha, b.list, it.v) IN
                 IF x.err # "nil" THEN [b EXCEPT !.err = x.err]
                 ELSE IF x.id = <<>> THEN b
                 ELSE [err |-> "nil",
                       headers |-> Append(b.headers,
                                          [key |-> it.key, value |-> x.id,
                                           given |-> it.v.kind]),
                       list |-> x.list]

NotBuilt == [err |-> "none", headers |-> <<>>, list |-> {}]

\* No buffer is studied.
BufferIdle ==
    /\ breq = [op |-> "Notify", ha |-> "MD5", icon |-> [kind |-> "nil"],
               custom |-> [kind |-> "nil"], nicon |-> [kind |-> "nil"]]
    /\ built = NotBuilt

\* One call of a client with any hash algorithm, icons and custom header
\* (Notify does not look at c.Icon).
BufferInit ==
    /\ \E op \in {"Register", "Notify"}, ha \in HashAlgorithms \cup {"-1"},
          a, c, n \in GivenValues :
          /\ op = "Notify" => a = [kind |-> "nil"]
          /\ breq = [op |-> op, ha |-> ha, icon |-> a, custom |-> c, nicon |-> n]
    /\ built = NotBuilt

\* Register or Notify up to its call of send.
DoBuild ==
    /\ built = NotBuilt
    /\ built' = Filled(breq, Len(Items(breq)))
    /\ UNCHANGED <<breq, restBuf>>

----------------------------------------------------------------------------
(* windows.NotifyIcon: New *)

\* How many messages the shell posts to the window.
MaxPosts == 3

\* How many times ni.Close is called.
MaxCloseCalls == 3

\* The messages the model follows: WM_CLOSE, WM_USER with a balloon
\* notification in lParam, WM_COMMAND and TaskbarCreated.
WM_CLOSE == "WM_CLOSE"
WM_USER == "WM_USER"
WM_COMMAND == "WM_COMMAND"
WM_TASKBARCREATED == "TaskbarCreated"

\* The messages that arrive from outside the program.
ShellMessages == {WM_USER, WM_COMMAND, WM_TASKBARCREATED}

\* New has returned ni: both goroutines run (wg is 2), the message goroutine
\* is in GetMessage with an empty queue, the event goroutine is in its select
\* with balloon and menu nil, New has taken the nil of CreateWindowEx from
\* ni.err, done is open and nothing holds the mutex.
WinNew ==
    /\ niQueue = <<>>
    /\ niMsg = "GetMessage"
    /\ niEvent = [pc |-> "select", balloon |-> 0, menu |-> 0]
    /\ niMu = "free"
    /\ niDone = FALSE
    /\ niErr = <<>>
    /\ niWg = 2
    /\ niAdded = 0
    /\ niClose = [pc |-> "idle", calls |-> 0, last |-> "none", posted |-> FALSE]
    /\ niPosts = 0

----------------------------------------------------------------------------
(* New *)

ClientInit ==
    /\ mu = Free
    /\ cb = {}
    /\ ctx = 0
    /\ cancelledBy = [g \in Scopes |-> 0]
    /\ wg = 0
    /\ nreset = 0
    /\ rstPc = "idle"
    /\ nconn = 0
    /\ spc = [k \in Conns |-> "idle"]
    /\ mt = [k \in Conns |-> "REGISTER"]
    /\ err = [k \in Conns |-> "nil"]
    /\ open = [k \in Conns |-> FALSE]
    /\ wire = [k \in Conns |-> "none"]
    /\ rpc = [k \in Conns |-> "none"]
    /\ rctx = [k \in Conns |-> 0]
    /\ sendq = <<>>
    /\ consumer = "idle"
    /\ received = <<>>
    /\ decoded = <<>>
    /\ dropped = {}
    /\ everCb = {}
    /\ nspawn = [k \in Conns |-> 0]
    /\ regAt = [k \in Conns |-> 0]

Init ==
    ClientInit /\ FacadeStart("gntp") /\ CodecIdle /\ ReplyIdle /\ FrameIdle
        /\ OptionIdle /\ FdNew /\ ActionsNew
        /\ ImageIdle /\ AccessNew /\ RequestIdle /\ ConnIdle /\ BufferIdle /\ WinNew

----------------------------------------------------------------------------
(* Client.send *)

\* A socket callback block entered for every successful request.
ShouldSpawn_AnyType(e, m) == e = "nil"

\* "if err == nil && mt == "NOTIFY"" guarding the socket callback block.
ShouldSpawn(e, m) == e = "nil" /\ m = "NOTIFY"

\* A deferred function that looks at the message type only.
ShouldClose_TypeOnly(e, m) == m # "NOTIFY"

\* "if err != nil || mt != "NOTIFY"" in send's deferred function.
ShouldClose(e, m) == e # "nil" \/ m # "NOTIFY"

\* The scope the n-th Reset call installed (0: the scope New created).
ScopeOf(n) == n

\* A reader bound to the scope New created, whatever Reset installed since.
BoundScope_Initial == ScopeOf(0)

\* The scope send hands to the callback goroutine: c.ctx, read under c.mu.
BoundScope == ctx

\* What the model keeps of the error a call returned: nil, net.Dial's error (the
\* call had no connection), or any other error.
Returned(e) == IF e \in {"nil", "dial"} THEN e ELSE "failed"

\* A send call up to its "socket callback" test: net.Dial, SetPassword, the
\* writes and the reading of the reply leave o in err. Unless a NOTIFY succeeded
\* the call returns here, its deferred function closing the connection (a failed
\* dial leaves none); a successful NOTIFY goes on to c.wg.Add(1) and c.mu.Lock().
SendExchange(m, o) ==
    /\ nconn < MaxConns
    /\ LET k == nconn + 1 IN
        /\ nconn' = k
        /\ mt' = [mt EXCEPT ![k] = m]
        /\ err' = [err EXCEPT ![k] = Returned(o)]
        /\ open' = [open EXCEPT ![k] = o # "dial" /\ ~ShouldClose(o, m)]
        /\ IF ShouldSpawn(o, m)
           THEN /\ wg' = wg + 1
                /\ spc' = [spc EXCEPT ![k] = "wantlock"]
           ELSE /\ wg' = wg
                /\ spc' = [spc EXCEPT ![k] = "done"]
    /\ UNCHANGED <<mu, cb, ctx, cancelledBy, nreset, rstPc, wire, rpc, rctx, sendq,
                   consumer, received, decoded, dropped, everCb, nspawn, regAt,
                   facadeVars, codecVars, replyVars>>

\* c.mu.Lock() in send.
SendLock(k) ==
    /\ spc[k] = "wantlock"
    /\ mu = Free
    /\ mu' = <<"send", k>>
    /\ spc' = [spc EXCEPT ![k] = "locked"]
    /\ UNCHANGED <<cb, ctx, cancelledBy, wg, nreset, rstPc, nconn, mt, err, open, wire,
                   rpc, rctx, sendq, consumer, received, decoded, dropped, everCb,
                   nspawn, regAt, facadeVars, codecVars, replyVars>>

\* c.cb[conn] = struct{}{}; go c.callback(c.ctx, conn, br); c.mu.Unlock(); return
\* (the deferred function leaves the connection open).
SendRegister(k) ==
    /\ spc[k] = "locked"
    /\ mu = <<"send", k>>
    /\ cb' = cb \cup {k}
    /\ everCb' = everCb \cup {k}
    /\ rpc' = [rpc EXCEPT ![k] = "read"]
    /\ rctx' = [rctx EXCEPT ![k] = BoundScope]
    /\ nspawn' = [nspawn EXCEPT ![k] = @ + 1]
    /\ regAt' = [regAt EXCEPT ![k] = nreset]
    /\ mu' = Free
    /\ spc' = [spc EXCEPT ![k] = "done"]
    /\ UNCHANGED <<ctx, cancelledBy, wg, nreset, rstPc, nconn, mt, err, open, wire, sendq,
                   consumer, received, decoded, dropped, facadeVars, codecVars, replyVars>>

\* The server, after its -OK to a NOTIFY, sends a -CALLBACK, sends something else,
\* or closes its end of the connection.
ServerSend(k, w) ==
    /\ spc[k] \in {"wantlock", "locked", "done"}
    /\ ShouldSpawn(err[k], mt[k])
    /\ wire[k] = "none"
    /\ wire' = [wire EXCEPT ![k] = w]
    /\ UNCHANGED <<mu, cb, ctx, cancelledBy, wg, nreset, rstPc, nconn, spc, mt,
                   err, open, rpc, rctx, sendq, consumer, received, decoded, dropped,
                   everCb, nspawn, regAt, facadeVars, codecVars, replyVars>>

----------------------------------------------------------------------------
(* Client.callback *)

\* r.ReadLine(), ParseInfo, the optional Decrypt, r.ReadMIMEHeader() and the
\* building of the Callback. With a well-formed -CALLBACK at hand (it may sit in
\* br since the reply was read) the reader reaches its select; for anything else it
\* returns; on a connection closed at this end the read fails and it returns.
ReaderRead(k) ==
    /\ rpc[k] = "read"
    /\ \/ /\ wire[k] = "callback"
          /\ rpc' = [rpc EXCEPT ![k] = "select"]
          /\ decoded' = Append(decoded, k)
          /\ wire' = [wire EXCEPT ![k] = "taken"]
       \/ /\ wire[k] = "bad"
          /\ rpc' = [rpc EXCEPT ![k] = "exit"]
          /\ wire' = [wire EXCEPT ![k] = "taken"]
          /\ decoded' = decoded
       \/ /\ ~open[k]
          /\ rpc' = [rpc EXCEPT ![k] = "exit"]
          /\ UNCHANGED <<wire, decoded>>
    /\ UNCHANGED <<mu, cb, ctx, cancelledBy, wg, nreset, rstPc, nconn, spc, mt, err, open,
                   rctx, sendq, consumer, received, dropped, everCb, nspawn, regAt,
                   facadeVars, codecVars, replyVars>>

\* A select without the ctx.Done() case.
DoneReady_Never(k) == FALSE

\* A select with a default case: it never waits.
DoneReady_Always(k) == TRUE

\* Whether the "case <-ctx.Done()" of the reader's select can proceed.
DoneReady(k) == Cancelled(rctx[k])

\* A reader that goes round its select again after the send.
AfterDelivery_Again == "select"

\* Where the reader is once its send on c.Callback has completed: callback
\* returns, its deferred functions run.
AfterDelivery == "exit"

\* select { case c.Callback <- cb: case <-ctx.Done(): } as the reader executes it:
\* with a receiver waiting on the unbuffered channel the send can proceed, with
\* the scope cancelled the Done case can proceed, and when both can, either is
\* chosen; when neither can, the reader blocks, queued on the channel.
ReaderSelect(k) ==
    /\ rpc[k] = "select"
    /\ \/ /\ consumer = "recv"
          /\ consumer' = "idle"
          /\ received' = Append(received, k)
          /\ rpc' = [rpc EXCEPT ![k] = AfterDelivery]
          /\ UNCHANGED <<dropped, sendq>>
       \/ /\ DoneReady(k)
          /\ dropped' = dropped \cup {k}
          /\ rpc' = [rpc EXCEPT ![k] = "exit"]
          /\ UNCHANGED <<consumer, received, sendq>>
       \/ /\ consumer # "recv"
          /\ ~DoneReady(k)
          /\ sendq' = Append(sendq, k)
          /\ rpc' = [rpc EXCEPT ![k] = "blocked"]
          /\ UNCHANGED <<consumer, received, dropped>>
    /\ UNCHANGED <<mu, cb, ctx, cancelledBy, wg, nreset, rstPc, nconn, spc, mt,
                   err, open, wire, rctx, decoded, everCb, nspawn, regAt,
                   facadeVars, codecVars, replyVars>>

\* The deferred function of callback takes c.mu.
ReaderExitLock(k) ==
    /\ rpc[k] = "exit"
    /\ mu = Free
    /\ mu' = <<"reader", k>>
    /\ rpc' = [rpc EXCEPT ![k] = "exitlocked"]
    /\ UNCHANGED <<cb, ctx, cancelledBy, wg, nreset, rstPc, nconn, spc, mt, err,
                   open, wire, rctx, sendq, consumer, received, decoded, dropped,
                   everCb, nspawn, regAt, facadeVars, codecVars, replyVars>>

\* A deferred function that leaves c.cb as it is.
Deleted_Kept(k) == cb

\* delete(c.cb, conn).
Deleted(k) == cb \ {k}

\* conn.Close(); delete(c.cb, conn); c.mu.Unlock(); then c.wg.Done().
ReaderExit(k) ==
    /\ rpc[k] = "exitlocked"
    /\ mu = <<"reader", k>>
    /\ open' = [open EXCEPT ![k] = FALSE]
    /\ cb' = Deleted(k)
    /\ mu' = Free
    /\ wg' = wg - 1
    /\ rpc' = [rpc EXCEPT ![k] = "done"]
    /\ UNCHANGED <<ctx, cancelledBy, nreset, rstPc, nconn, spc, mt, err, wire,
                   rctx, sendq, consumer, received, decoded, dropped, everCb, nspawn,
                   regAt, facadeVars, codecVars, replyVars>>

----------------------------------------------------------------------------
(* The consumer of c.Callback *)

\* A goroutine executes <-c.Callback: it takes the callback of the reader that
\* has waited longest on the channel, or blocks when no reader waits.
ConsumerRecv ==
    /\ consumer = "idle"
    /\ IF sendq # <<>>
       THEN /\ received' = Append(received, Head(sendq))
            /\ rpc' = [rpc EXCEPT ![Head(sendq)] = AfterDelivery]
            /\ sendq' = Tail(sendq)
            /\ consumer' = consumer
       ELSE /\ consumer' = "recv"
            /\ UNCHANGED <<received, rpc, sendq>>
    /\ UNCHANGED <<mu, cb, ctx, cancelledBy, wg, nreset, rstPc, nconn, spc, mt,
                   err, open, wire, rctx, decoded, dropped, everCb, nspawn,
                   regAt, facadeVars, codecVars, replyVars>>

----------------------------------------------------------------------------
(* Client.Reset, and notifier.Close of the GNTP facade, which calls it *)

\* A Reset that closes nothing.
ResetCloses_None == {}

\* The connections Reset closes: "for conn := range c.cb".
ResetCloses == cb

\* A Reset without c.cancel().
CancelScope_Forgotten == cancelledBy

\* c.cancel(): the current scope is cancelled, by this Reset call.
CancelScope == [cancelledBy EXCEPT ![ctx] = nreset + 1]

\* A Reset that keeps the cancelled scope.
NewScope_Stale == ctx

\* context.WithCancel(context.Background()): a scope not used before.
NewScope == ctx + 1

\* c.mu.Lock() in Reset.
ResetLock ==
    /\ rstPc = "idle"
    /\ nreset < MaxResets
    /\ mu = Free
    /\ mu' = <<"reset", 0>>
    /\ rstPc' = "locked"
    /\ UNCHANGED <<cb, ctx, cancelledBy, wg, nreset, nconn, spc, mt, err, open, wire,
                   rpc, rctx, sendq, consumer, received, decoded, dropped, everCb,
                   nspawn, regAt, facadeVars, codecVars, replyVars>>

\* notifier.Close of the GNTP facade: p.c.Reset(), then "return nil".
NotifierClose == ResetLock

\* for conn := range c.cb { conn.Close() }
ResetClose ==
    /\ rstPc = "locked"
    /\ rstPc' = "closed"
    /\ open' = [k \in Conns |-> IF k \in ResetCloses THEN FALSE ELSE open[k]]
    /\ UNCHANGED <<mu, cb, ctx, cancelledBy, wg, nreset, nconn, spc, mt, err,
                   wire, rpc, rctx, sendq, consumer, received, decoded, dropped, everCb,
                   nspawn, regAt, facadeVars, codecVars, replyVars>>

\* c.cancel(); c.ctx, c.cancel = context.WithCancel(...); the deferred Unlock; the
\* return. Closing the scope's Done channel wakes every reader blocked in its
\* select on that scope: it leaves the select through the Done case.
ResetCancel ==
    /\ rstPc = "closed"
    /\ cancelledBy' = CancelScope
    /\ rctx' = rctx
    /\ LET woken == {k \in Range(sendq) : DoneReady(k)'} IN
        /\ sendq' = Filter(sendq, Range(sendq) \ woken)
        /\ dropped' = dropped \cup woken
        /\ rpc' = [k \in Conns |-> IF k \in woken THEN "exit" ELSE rpc[k]]
    /\ ctx' = NewScope
    /\ nreset' = nreset + 1
    /\ mu' = Free
    /\ rstPc' = "idle"
    /\ UNCHANGED <<cb, wg, nconn, spc, mt, err, open, wire, consumer, received,
                   decoded, everCb, nspawn, regAt, facadeVars, codecVars, replyVars>>

----------------------------------------------------------------------------

Next ==
    \/ \E m \in MessageTypes, o \in Outcomes : SendExchange(m, o)
    \/ \E k \in Conns : SendLock(k)
    \/ \E k \in Conns : SendRegister(k)
    \/ \E k \in Conns, w \in ServerMoves : ServerSend(k, w)
    \/ \E k \in Conns : ReaderRead(k)
    \/ \E k \in Conns : ReaderSelect(k)
    \/ \E k \in Conns : ReaderExitLock(k)
    \/ \E k \in Conns : ReaderExit(k)
    \/ ConsumerRecv
    \/ ResetLock
    \/ NotifierClose
    \/ ResetClose
    \/ ResetCancel

Spec == Init /\ [][Next]_vars

\* Scheduling: a goroutine that can run does run, so every step of a callback
\* reader, of a send call past its exchange and of a Reset call holding the mutex
\* is taken when it stays enabled. Nothing obliges a caller to start a request or
\* a Reset, the server to send, or a consumer to receive.
Fairness ==
    /\ \A k \in Conns :
          /\ WF_vars(SendLock(k))
          /\ WF_vars(SendRegister(k))
          /\ WF_vars(ReaderRead(k))
          /\ WF_vars(ReaderSelect(k))
          /\ WF_vars(ReaderExitLock(k))
          /\ WF_vars(ReaderExit(k))
    /\ WF_vars(ResetClose)
    /\ WF_vars(ResetCancel)

LiveSpec == Init /\ [][Next]_vars /\ Fairness

FacadeInit ==
    ClientInit /\ (\E b \in Backends : FacadeStart(b)) /\ CodecIdle /\ ReplyIdle
        /\ FrameIdle /\ OptionIdle /\ FdNew /\ ActionsNew
        /\ ImageIdle /\ AccessNew /\ RequestIdle /\ ConnIdle /\ BufferIdle /\ WinNew

FacadeNext ==
    \/ \E e \in Events, valid \in BOOLEAN, o \in Opts, reqOk \in BOOLEAN :
          FacadeRegister(e, valid, o, reqOk)
    \/ \E e \in Events, t \in Titles, bd \in Bodies, dispatchOk \in BOOLEAN :
          FacadeNotify(e, t, bd, dispatchOk)

FacadeSpec == FacadeInit /\ [][FacadeNext]_vars

\* The Info of one request: SetPassword, then Encrypt and Decrypt.
CodecStart ==
    ClientInit /\ FacadeStart("gntp") /\ CodecInit /\ ReplyIdle /\ FrameIdle
        /\ OptionIdle /\ FdNew /\ ActionsNew
        /\ ImageIdle /\ AccessNew /\ RequestIdle /\ ConnIdle /\ BufferIdle /\ WinNew

CodecNext ==
    \/ \E p \in Passwords, salt0 \in Salts : DoSetPassword(p, salt0)
    \/ DoEncrypt
    \/ DoPeerEncrypt
    \/ DoDecrypt

CodecSpec == CodecStart /\ [][CodecNext]_vars

\* An Info is prepared by SetPassword, written as a line, and the line is parsed.
InfoStart ==
    ClientInit /\ FacadeStart("gntp") /\ InfoInit /\ ReplyIdle /\ FrameIdle
        /\ OptionIdle /\ FdNew /\ ActionsNew
        /\ ImageIdle /\ AccessNew /\ RequestIdle /\ ConnIdle /\ BufferIdle /\ WinNew

InfoNext ==
    \/ \E p \in Passwords, salt0 \in Salts : DoSetPassword(p, salt0)
    \/ DoString
    \/ \E p \in Passwords : DoParseInfo(p)

InfoSpec == InfoStart /\ [][InfoNext]_vars

\* SetPassword is called on an Info again and again.
SaltNext ==
    \/ \E p \in Passwords, salt0 \in Salts : DoSetPassword(p, salt0)
    \/ \E p \in Passwords, salt0 \in Salts : DoSetPasswordAgain(p, salt0)

SaltSpec == InfoStart /\ [][SaltNext]_vars

\* A line from a peer is parsed.
ParseStart ==
    ClientInit /\ FacadeStart("gntp") /\ ParseInit /\ ReplyIdle /\ FrameIdle
        /\ OptionIdle /\ FdNew /\ ActionsNew
        /\ ImageIdle /\ AccessNew /\ RequestIdle /\ ConnIdle /\ BufferIdle /\ WinNew

ParseNext == \E p \in Passwords : DoParseInfo(p)

ParseSpec == ParseStart /\ [][ParseNext]_vars

\* One reply is handled.
ReplyStart ==
    ClientInit /\ FacadeStart("gntp") /\ CodecIdle /\ ReplyInit /\ FrameIdle
        /\ OptionIdle /\ FdNew /\ ActionsNew
        /\ ImageIdle /\ AccessNew /\ RequestIdle /\ ConnIdle /\ BufferIdle /\ WinNew

ReplyNext == DoHandleReply

ReplySpec == ReplyStart /\ [][ReplyNext]_vars

\* One message on a retained connection is read.
FrameStart ==
    ClientInit /\ FacadeStart("gntp") /\ CodecIdle /\ ReplyIdle /\ FrameInit
        /\ OptionIdle /\ FdNew /\ ActionsNew
        /\ ImageIdle /\ AccessNew /\ RequestIdle /\ ConnIdle /\ BufferIdle /\ WinNew

FrameNext == DoReadCallback

FrameSpec == FrameStart /\ [][FrameNext]_vars

\* One Register call of a notifier.
OptionStart ==
    ClientInit /\ FacadeStart("gntp") /\ CodecIdle /\ ReplyIdle /\ FrameIdle
        /\ OptionInit /\ FdNew /\ ActionsNew
        /\ ImageIdle /\ AccessNew /\ RequestIdle /\ ConnIdle /\ BufferIdle /\ WinNew

OptionNext == DoRegister

OptionSpec == OptionStart /\ [][OptionNext]_vars

\* A freedesktop Client from New on: Close callers, the bus and a consumer.
FdNext ==
    \/ \E c \in Callers : CloseLock(c)
    \/ \E c \in Callers : CloseSelect(c)
    \/ \E c \in Callers : CloseWait(c)
    \/ \E c \in Callers : CloseConn(c)
    \/ \E kind \in Kinds \cup {"other"} : SigAccept(kind)
    \/ \E kind \in Kinds : SigSend(kind)
    \/ SigDone

FdSpec == Init /\ [][FdNext]_vars

\* A Close call that has taken the mutex goes on, and the goroutine's select
\* takes its Done case once it can: that case stays ready whatever else
\* the select chooses. Nothing obliges anyone to call Close, the bus to send or
\* a consumer to receive.
FdFairness ==
    /\ \A c \in Callers :
          WF_vars(CloseSelect(c)) /\ WF_vars(CloseWait(c)) /\ WF_vars(CloseConn(c))
    /\ WF_vars(SigDone)

FdLiveSpec == Init /\ [][FdNext]_vars /\ FdFairness

\* Action calls on a new Notification.
ActionNext == \E key \in ActionKeys, label \in ActionLabels : DoAction(key, label)

ActionSpec == Init /\ [][ActionNext]_vars

\* One image is converted.
ImageStart ==
    ClientInit /\ FacadeStart("gntp") /\ CodecIdle /\ ReplyIdle /\ FrameIdle
        /\ OptionIdle /\ FdNew /\ ActionsNew /\ ImageInit /\ AccessNew /\ RequestIdle /\ ConnIdle /\ BufferIdle /\ WinNew

ImageNext == DoConvert

ImageSpec == ImageStart /\ [][ImageNext]_vars

\* err after the switch on the reply's message type.
ReplyErr(c) ==
    IF c.line = "-OK" /\ c.bodyOk THEN "nil"
    ELSE IF c.line = "-ERROR" THEN "Error"
    ELSE "failed"

\* io.WriteString(conn, i.String()); io.WriteString(conn, "\r\n").
ConnWriteInfo ==
    /\ cpc = "info"
    /\ trace' = Append(trace, "info")
    /\ cpc' = "headers"
    /\ UNCHANGED <<call, kpc, restConn>>

\* The header block, encrypted or not, and its terminator.
ConnWriteHeaders ==
    /\ cpc = "headers"
    /\ trace' = Append(trace, "headers")
    /\ cpc' = "blobs"
    /\ UNCHANGED <<call, kpc, restConn>>

\* One round of "for id, data := range b.list".
ConnWriteBlob ==
    /\ cpc = "blobs"
    /\ Cardinality({n \in 1..Len(trace) : trace[n] = "blob"}) < call.blobs
    /\ trace' = Append(trace, "blob")
    /\ UNCHANGED <<call, cpc, kpc, restConn>>

\* After the loop: io.WriteString(conn, "\r\n").
ConnWriteEnd ==
    /\ cpc = "blobs"
    /\ Cardinality({n \in 1..Len(trace) : trace[n] = "blob"}) = call.blobs
    /\ trace' = Append(trace, "end")
    /\ cpc' = "replyline"
    /\ UNCHANGED <<call, kpc, restConn>>

\* r.ReadLine() and ParseInfo: on an error of either, send returns.
ConnReadLine ==
    /\ cpc = "replyline"
    /\ IF call.line = "closed"
       THEN trace' = trace
       ELSE trace' = Append(trace, "replyline")
    /\ cpc' = IF call.line \in {"closed", "unparsable"} THEN "done" ELSE "replybody"
    /\ UNCHANGED <<call, kpc, restConn>>

\* The switch on i.MessageType: -OK and -ERROR read what follows the line, any
\* other type is ErrProtocol.
ConnReadBody ==
    /\ cpc = "replybody"
    /\ IF call.line \in {"-OK", "-ERROR"}
       THEN trace' = Append(trace, "replybody")
       ELSE trace' = trace
    /\ cpc' = "socket"
    /\ UNCHANGED <<call, kpc, restConn>>

\* The socket callback block and the return.
ConnSocket ==
    /\ cpc = "socket"
    /\ kpc' = IF ShouldSpawn(ReplyErr(call), call.mt) THEN "line" ELSE kpc
    /\ cpc' = "done"
    /\ UNCHANGED <<call, trace, restConn>>

\* callback: r.ReadLine() and ParseInfo.
ConnCallbackLine ==
    /\ kpc = "line"
    /\ trace' = Append(trace, "cbline")
    /\ kpc' = IF call.cbBody THEN "body" ELSE "exit"
    /\ UNCHANGED <<call, cpc, restConn>>

\* callback: what follows the line, up to the Callback.
ConnCallbackBody ==
    /\ kpc = "body"
    /\ trace' = Append(trace, "cbbody")
    /\ kpc' = "exit"
    /\ UNCHANGED <<call, cpc, restConn>>

ConnStart ==
    ClientInit /\ FacadeStart("gntp") /\ CodecIdle /\ ReplyIdle /\ FrameIdle
        /\ OptionIdle /\ FdNew /\ ActionsNew /\ ImageIdle /\ AccessNew
        /\ RequestIdle /\ ConnInit /\ BufferIdle /\ WinNew

ConnNext ==
    \/ ConnWriteInfo
    \/ ConnWriteHeaders
    \/ ConnWriteBlob
    \/ ConnWriteEnd
    \/ ConnReadLine
    \/ ConnReadBody
    \/ ConnSocket
    \/ ConnCallbackLine
    \/ ConnCallbackBody

ConnSpec == ConnStart /\ [][ConnNext]_vars

\* One buffer is filled.
BufferStart ==
    ClientInit /\ FacadeStart("gntp") /\ CodecIdle /\ ReplyIdle /\ FrameIdle
        /\ OptionIdle /\ FdNew /\ ActionsNew /\ ImageIdle /\ AccessNew
        /\ RequestIdle /\ ConnIdle /\ BufferInit /\ WinNew

BufferNext == DoBuild

BufferSpec == BufferStart /\ [][BufferNext]_vars

\* One request is written.
RequestStart ==
    ClientInit /\ FacadeStart("gntp") /\ CodecIdle /\ ReplyIdle /\ FrameIdle
        /\ OptionIdle /\ FdNew /\ ActionsNew /\ ImageIdle /\ AccessNew
        /\ RequestInit /\ ConnIdle /\ BufferIdle /\ WinNew

RequestNext == DoWriteRequest

RequestSpec == RequestStart /\ [][RequestNext]_vars

\* A caller enters Register, Notify or Reset. Register and Notify start by
\* filling a buffer; Reset starts with c.mu.Lock().
AccBegin(t, op) ==
    /\ apc[t] = Resting
    /\ ncall < MaxCalls
    /\ op = "Notify" => apc[ReaderOf(t)] = Resting
    /\ ncall' = ncall + 1
    /\ apc' = [apc EXCEPT
                 ![t] = [op |-> op, at |-> IF op = "Reset" THEN "lock" ELSE "header"]]
    /\ UNCHANGED <<amu, alog, restAcc>>

\* "for k, v := range c.Header" of Register and of Notify, then c.send.
AccHeaders(t) ==
    /\ apc[t].at = "header"
    /\ alog' = alog \cup {Touch(t, "Header", "read")}
    /\ apc' = [apc EXCEPT ![t].at = "send"]
    /\ UNCHANGED <<amu, ncall, restAcc>>

\* send from net.Dial to the reply, which leaves e in err: unless a NOTIFY
\* succeeded, send returns; otherwise it goes on to c.mu.Lock().
AccExchange(t, e) ==
    /\ apc[t].at = "send"
    /\ apc' = [apc EXCEPT ![t] = IF ShouldSpawn(e, TypeOf(apc[t].op))
                                 THEN [@ EXCEPT !.at = "lock"]
                                 ELSE Resting]
    /\ UNCHANGED <<amu, alog, ncall, restAcc>>

\* A mutex that excludes nobody.
LockFree_Always == TRUE

\* Whether c.mu.Lock() can proceed.
LockFree == amu = 0

\* c.mu.Lock() in send, in Reset and in the deferred function of callback.
AccLock(t) ==
    /\ apc[t].at = "lock"
    /\ LockFree
    /\ amu' = t
    /\ apc' = [apc EXCEPT ![t].at = CASE apc[t].op = "Notify" -> "add"
                                      [] apc[t].op = "Reset" -> "range"
                                      [] apc[t].op = "callback" -> "delete"]
    /\ UNCHANGED <<alog, ncall, restAcc>>

\* c.cb[conn] = struct{}{} in send.
AccAdd(t) ==
    /\ apc[t].at = "add"
    /\ alog' = alog \cup {Touch(t, "cb", "write")}
    /\ apc' = [apc EXCEPT ![t].at = "go"]
    /\ UNCHANGED <<amu, ncall, restAcc>>

\* go c.callback(c.ctx, conn, br) in send: c.ctx is read and the reader starts.
AccGo(t) ==
    /\ apc[t].at = "go"
    /\ alog' = alog \cup {Touch(t, "ctx", "read")}
    /\ apc' = [apc EXCEPT ![t].at = "unlock",
                          ![ReaderOf(t)] = [op |-> "callback", at |-> "run"]]
    /\ UNCHANGED <<amu, ncall, restAcc>>

\* for conn := range c.cb { conn.Close() } in Reset.
AccRange(t) ==
    /\ apc[t].at = "range"
    /\ alog' = alog \cup {Touch(t, "cb", "read")}
    /\ apc' = [apc EXCEPT ![t].at = "cancel"]
    /\ UNCHANGED <<amu, ncall, restAcc>>

\* c.cancel() in Reset.
AccCancel(t) ==
    /\ apc[t].at = "cancel"
    /\ alog' = alog \cup {Touch(t, "cancel", "read")}
    /\ apc' = [apc EXCEPT ![t].at = "assign"]
    /\ UNCHANGED <<amu, ncall, restAcc>>

\* c.ctx, c.cancel = context.WithCancel(context.Background()) in Reset.
AccAssign(t) ==
    /\ apc[t].at = "assign"
    /\ alog' = alog \cup {Touch(t, "ctx", "write"), Touch(t, "cancel", "write")}
    /\ apc' = [apc EXCEPT ![t].at = "unlock"]
    /\ UNCHANGED <<amu, ncall, restAcc>>

\* callback from its first read to its return: it works on its arguments ctx,
\* conn and br, on c.Password and on c.Callback; then its deferred function runs.
AccRun(t) ==
    /\ apc[t].at = "run"
    /\ apc' = [apc EXCEPT ![t].at = "lock"]
    /\ UNCHANGED <<amu, alog, ncall, restAcc>>

\* conn.Close(); delete(c.cb, conn) in the deferred function of callback.
AccDelete(t) ==
    /\ apc[t].at = "delete"
    /\ alog' = alog \cup {Touch(t, "cb", "write")}
    /\ apc' = [apc EXCEPT ![t].at = "unlock"]
    /\ UNCHANGED <<amu, ncall, restAcc>>

\* c.mu.Unlock() and the return.
AccUnlock(t) ==
    /\ apc[t].at = "unlock"
    /\ amu' = 0
    /\ apc' = [apc EXCEPT ![t] = Resting]
    /\ UNCHANGED <<alog, ncall, restAcc>>

AccessNext ==
    \/ \E t \in Callers, op \in Methods : AccBegin(t, op)
    \/ \E t \in Callers : AccHeaders(t)
    \/ \E t \in Callers, e \in {"nil", "failed"} : AccExchange(t, e)
    \/ \E t \in Routines : AccLock(t)
    \/ \E t \in Callers : AccAdd(t)
    \/ \E t \in Callers : AccGo(t)
    \/ \E t \in Callers : AccRange(t)
    \/ \E t \in Callers : AccCancel(t)
    \/ \E t \in Callers : AccAssign(t)
    \/ \E t \in Routines : AccRun(t)
    \/ \E t \in Routines : AccDelete(t)
    \/ \E t \in Routines : AccUnlock(t)

\* Register, Notify and Reset calls and the readers they start, by their
\* accesses to the state they share.
AccessSpec == Init /\ [][AccessNext]_vars

----------------------------------------------------------------------------
(* windows.NotifyIcon: Close, event, message, windowProc *)

\* The shell or the user posts a message to the window. A destroyed window
\* takes no message.
WinPost(m) ==
    /\ ~niDone
    /\ niPosts < MaxPosts
    /\ niQueue' = Append(niQueue, m)
    /\ niPosts' = niPosts + 1
    /\ UNCHANGED <<niMsg, niEvent, niMu, niDone, niErr, niWg, niAdded, niClose, restWin>>

\* The program calls ni.Add, which takes the mutex, prepares and adds the icon.
WinAdd ==
    /\ ~niDone
    /\ niMu = "free"
    /\ niAdded = 0
    /\ niAdded' = 1
    /\ UNCHANGED <<niQueue, niMsg, niEvent, niMu, niDone, niErr, niWg, niClose, niPosts, restWin>>

\* Close: ni.mu.Lock().
WinCloseLock ==
    /\ niClose.pc = "idle"
    /\ niClose.calls < MaxCloseCalls
    /\ niMu = "free"
    /\ niMu' = "Close"
    /\ niClose' = [niClose EXCEPT !.pc = "locked", !.posted = FALSE]
    /\ UNCHANGED <<niQueue, niMsg, niEvent, niDone, niErr, niWg, niAdded, niPosts, restWin>>

\* Close: the select on ni.done. With done closed it returns nil and the
\* deferred Unlock runs; otherwise it posts WM_CLOSE.
WinCloseSelect ==
    /\ niClose.pc = "locked"
    /\ IF niDone
       THEN /\ niClose' = [niClose EXCEPT !.pc = "idle", !.calls = @ + 1,
                                          !.last = "nil"]
            /\ niMu' = "free"
            /\ UNCHANGED niQueue
       ELSE /\ niClose' = [niClose EXCEPT !.pc = "Wait", !.posted = TRUE]
            /\ niQueue' = Append(niQueue, WM_CLOSE)
            /\ UNCHANGED niMu
    /\ UNCHANGED <<niMsg, niEvent, niDone, niErr, niWg, niAdded, niPosts, restWin>>

\* Close: ni.wg.Wait() returns when both goroutines are done.
WinCloseWait ==
    /\ niClose.pc = "Wait"
    /\ niWg = 0
    /\ niClose' = [niClose EXCEPT !.pc = "receive"]
    /\ UNCHANGED <<niQueue, niMsg, niEvent, niMu, niDone, niErr, niWg, niAdded, niPosts, restWin>>

\* Close: return <-ni.err, and the deferred Unlock.
WinCloseReturn ==
    /\ niClose.pc = "receive"
    /\ niErr # <<>>
    /\ niClose' = [niClose EXCEPT !.pc = "idle", !.calls = @ + 1,
                                  !.last = Head(niErr)]
    /\ niErr' = Tail(niErr)
    /\ niMu' = "free"
    /\ UNCHANGED <<niQueue, niMsg, niEvent, niDone, niWg, niAdded, niPosts, restWin>>

\* message: GetMessage returns the oldest message and DispatchMessage hands it
\* to windowProc. WM_CLOSE destroys the window, which sends WM_DESTROY at once:
\* the icon is deleted if it was added, done is closed, the quit message is
\* posted and what is left in the queue of the window is dropped. WM_USER and
\* WM_COMMAND go on to a send on ni.ev, TaskbarCreated clears ni.added and
\* goes on to ni.Add.
MsgDispatch ==
    /\ niMsg = "GetMessage"
    /\ niQueue # <<>>
    /\ LET m == Head(niQueue) IN
        IF m = WM_CLOSE
        THEN /\ niDone' = TRUE
             /\ niQueue' = <<>>
             /\ niMsg' = "ni.err <-"
             /\ UNCHANGED niAdded
        ELSE /\ niQueue' = Tail(niQueue)
             /\ niMsg' = IF m = WM_TASKBARCREATED THEN "Add"
                         ELSE IF m = WM_USER THEN "ni.ev <- balloon"
                         ELSE "ni.ev <- menu"
             /\ niAdded' = IF m = WM_TASKBARCREATED THEN 0 ELSE niAdded
             /\ UNCHANGED niDone
    /\ UNCHANGED <<niEvent, niMu, niErr, niWg, niClose, niPosts, restWin>>

\* windowProc, WM_DESTROY: ni.err <- err, where err is nil if the icon was not
\* added and what Shell_NotifyIcon(NIM_DELETE) returned if it was. The channel
\* holds one value; the send waits while it is full.
MsgSendErr ==
    /\ niMsg = "ni.err <-"
    /\ Len(niErr) < 1
    /\ \E e \in (IF niAdded # 0 THEN {"nil", "error"} ELSE {"nil"}) :
          niErr' = Append(niErr, e)
    /\ niMsg' = "quit"
    /\ UNCHANGED <<niQueue, niEvent, niMu, niDone, niWg, niAdded, niClose, niPosts, restWin>>

\* message: GetMessage returns 0 for the quit message, the loop ends and the
\* deferred wg.Done runs.
MsgQuit ==
    /\ niMsg = "quit"
    /\ niMsg' = "exit"
    /\ niWg' = niWg - 1
    /\ UNCHANGED <<niQueue, niEvent, niMu, niDone, niErr, niAdded, niClose, niPosts, restWin>>

\* windowProc, TaskbarCreated: ni.Add takes ni.mu.
MsgAddLock ==
    /\ niMsg = "Add"
    /\ niMu = "free"
    /\ niMu' = "Add"
    /\ niMsg' = "adding"
    /\ UNCHANGED <<niQueue, niEvent, niDone, niErr, niWg, niAdded, niClose, niPosts, restWin>>

\* windowProc, TaskbarCreated: ni.Add adds the icon and gives ni.mu back, and
\* windowProc returns.
MsgAddDone ==
    /\ niMsg = "adding"
    /\ niMu' = "free"
    /\ niAdded' = 1
    /\ niMsg' = "GetMessage"
    /\ UNCHANGED <<niQueue, niEvent, niDone, niErr, niWg, niClose, niPosts, restWin>>

\* event: the select takes the value windowProc sends on ni.ev and appends it
\* to balloonBuf or menuBuf; windowProc returns.
EventReceive ==
    /\ niEvent.pc = "select"
    /\ niMsg \in {"ni.ev <- balloon", "ni.ev <- menu"}
    /\ niEvent' = IF niMsg = "ni.ev <- balloon"
                  THEN [niEvent EXCEPT !.balloon = @ + 1]
                  ELSE [niEvent EXCEPT !.menu = @ + 1]
    /\ niMsg' = "GetMessage"
    /\ UNCHANGED <<niQueue, niMu, niDone, niErr, niWg, niAdded, niClose, niPosts, restWin>>

\* event: the program receives from ni.Balloon or from ni.Menu, and the select
\* hands it the oldest buffered event.
EventDeliver ==
    /\ niEvent.pc = "select"
    /\ \/ niEvent.balloon > 0 /\ niEvent' = [niEvent EXCEPT !.balloon = @ - 1]
       \/ niEvent.menu > 0 /\ niEvent' = [niEvent EXCEPT !.menu = @ - 1]
    /\ UNCHANGED <<niQueue, niMsg, niMu, niDone, niErr, niWg, niAdded, niClose, niPosts, restWin>>

\* event: the select takes <-ni.done, event returns and the deferred wg.Done
\* runs.
EventDone ==
    /\ niEvent.pc = "select"
    /\ niDone
    /\ niEvent' = [niEvent EXCEPT !.pc = "exit"]
    /\ niWg' = niWg - 1
    /\ UNCHANGED <<niQueue, niMsg, niMu, niDone, niErr, niAdded, niClose, niPosts, restWin>>

WinNext ==
    \/ \E m \in ShellMessages : WinPost(m)
    \/ WinAdd
    \/ WinCloseLock
    \/ WinCloseSelect
    \/ WinCloseWait
    \/ WinCloseReturn
    \/ MsgDispatch
    \/ MsgSendErr
    \/ MsgQuit
    \/ MsgAddLock
    \/ MsgAddDone
    \/ EventReceive
    \/ EventDeliver
    \/ EventDone

\* Scheduling: a goroutine that can take a step takes it, and a select that
\* has a ready case does not wait. The shell and the receiver of ni.Balloon
\* and ni.Menu are free to do nothing.
WinFairness ==
    /\ WF_vars(WinCloseLock)
    /\ WF_vars(WinCloseSelect)
    /\ WF_vars(WinCloseWait)
    /\ WF_vars(WinCloseReturn)
    /\ WF_vars(MsgDispatch)
    /\ WF_vars(MsgSendErr)
    /\ WF_vars(MsgQuit)
    /\ WF_vars(MsgAddLock)
    /\ WF_vars(MsgAddDone)
    /\ WF_vars(EventReceive)
    /\ WF_vars(EventDone)

\* A NotifyIcon from New on: Close callers, the shell and the two goroutines.
WinLiveSpec == Init /\ [][WinNext]_vars /\ WinFairness

----------------------------------------------------------------------------
(* Claims about the GNTP client engine *)

\* The step in which a Reset call returns.
ResetReturns == rstPc = "closed" /\ rstPc' = "idle"

\* Reader k has been started and has not returned.
Alive(k) == rpc[k] \notin {"none", "done"}

\* Callback k is among those the consumer received.
Got(k) == k \in Range(received)

\* C1, as stated: in the state right after a Reset call returns, the
\* open-callbacks set is empty.
C1_EmptyAfterReset == [][ResetReturns => cb' = {}]_vars

\* C1, amended: in the state right after a Reset call returns, every connection
\* still in the open-callbacks set is closed at the client's end and its reader's
\* scope is cancelled; and whenever no reader is running the set is empty.
C1_ClosedAfterReset ==
    /\ [][ResetReturns =>
            \A k \in cb' : ~open'[k] /\ cancelledBy'[rctx'[k]] # 0]_vars
    /\ []((\A k \in Conns : ~Alive(k)) => cb = {})

\* C1, witness: a Reset call has returned and the set still holds a connection,
\* closed, whose reader has not yet run its deferred function.
C1_Witness ==
    /\ rstPc = "idle"
    /\ nreset >= 1
    /\ \E k \in cb : ~open[k] /\ Cancelled(rctx[k]) /\ rpc[k] \in {"read", "exit"}

\* C2: once a Reset call that started after reader k was registered has returned,
\* reader k eventually returns, whether it waits in its read or in its select; and
\* once every reader has returned the wait group's counter is zero, so Wait returns.
C2_ReadersExitAfterReset ==
    /\ \A k \in Conns : (Alive(k) /\ nreset > regAt[k]) ~> (rpc[k] = "done")
    /\ []((\A k \in Conns : spc[k] \in {"idle", "done"} /\ ~Alive(k)) => wg = 0)

\* C2, witness: a reader that was blocked delivering with no consumer has returned
\* after a Reset, and the wait group's counter is zero.
C2_Witness ==
    /\ wg = 0
    /\ \E k \in dropped : rpc[k] = "done" /\ nreset > regAt[k] /\ received = <<>>

\* C3: the reader a NOTIFY registers is bound to the scope installed by the last
\* Reset call that returned before the registration (New's scope when there was
\* none), and that scope is live unless a Reset call that returned later cancelled it.
C3_BoundToFreshScope ==
    \A k \in Conns :
        rpc[k] # "none" =>
            /\ rctx[k] = ScopeOf(regAt[k])
            /\ cancelledBy[rctx[k]] = 0 \/ cancelledBy[rctx[k]] > regAt[k]

\* C3, witness: a reader registered after a Reset call had returned has delivered
\* its callback while its scope was live.
C3_Witness ==
    \E k \in Conns : regAt[k] >= 1 /\ Got(k) /\ ~Cancelled(rctx[k])

\* C4: once a request has returned: if it was not a NOTIFY its connection is closed,
\* was never in the open-callbacks set and has no reader; if it was a successful
\* NOTIFY its connection was added to the set, exactly one reader was started for
\* it, bound to the scope current at the registration, and the connection is open
\* for as long as neither that reader has returned nor a Reset has closed it.
C4_ConnectionLifetime ==
    \A k \in Conns :
        spc[k] = "done" =>
            /\ mt[k] # "NOTIFY" =>
                  ~open[k] /\ k \notin everCb /\ nspawn[k] = 0 /\ rpc[k] = "none"
            /\ (mt[k] = "NOTIFY" /\ err[k] = "nil") =>
                  /\ k \in everCb
                  /\ nspawn[k] = 1
                  /\ rctx[k] = ScopeOf(regAt[k])
                  /\ (k \in cb) = (rpc[k] # "done")
                  /\ open[k] \/ rpc[k] = "done" \/ Cancelled(rctx[k]) \/ rstPc = "closed"

\* C4, witness: a REGISTER has returned with its connection closed, and a NOTIFY
\* has returned with its connection open, registered, and its reader reading.
C4_Witness ==
    /\ \E k \in Conns :
          spc[k] = "done" /\ mt[k] = "REGISTER" /\ err[k] = "nil" /\ ~open[k]
    /\ \E k \in Conns :
          /\ spc[k] = "done" /\ mt[k] = "NOTIFY" /\ err[k] = "nil"
          /\ open[k] /\ k \in cb /\ rpc[k] = "read"

Pending(k) == rpc[k] \in {"select", "blocked"}

\* C6, as stated: a callback whose reader's scope is cancelled before the reader
\* has delivered it is never delivered.
C6_NeverDeliveredOnceCancelled ==
    [][\A k \in Conns : (Alive(k) /\ ~Got(k) /\ Cancelled(rctx[k])) => ~Got(k)']_vars

\* C6, amended: a reader blocked in its select has a live scope (the cancellation
\* wakes it and it drops the callback); a dropped callback is never delivered; and
\* a callback whose scope was cancelled before its delivery is delivered only by a
\* reader that executes its select while a consumer is already receiving.
C6_DroppedUnlessConsumerWaiting ==
    /\ [](\A k \in Conns :
            /\ rpc[k] = "blocked" => ~Cancelled(rctx[k])
            /\ k \in dropped => ~Got(k) /\ Cancelled(rctx[k]))
    /\ [][\A k \in Conns :
            (~Got(k) /\ Got(k)' /\ Cancelled(rctx[k])) =>
                rpc[k] = "select" /\ consumer = "recv"]_vars

\* C6, witness: a reader blocked in its select was cancelled, dropped its callback
\* and returned, and a consumer that started receiving afterwards got nothing.
C6_Witness ==
    \E k \in dropped : rpc[k] = "done" /\ consumer = "recv" /\ received = <<>>

\* C7: a reader that holds a decoded callback has not dropped it, its connection is
\* still in the open-callbacks set and is open unless a Reset closed it; and it
\* stops waiting only when the consumer receives that callback or its scope is
\* cancelled.
C7_BlocksUntilReceivedOrCancelled ==
    /\ [](\A k \in Conns :
            Pending(k) =>
                /\ k \notin dropped
                /\ k \in cb
                /\ open[k] \/ Cancelled(rctx[k]) \/ rstPc = "closed")
    /\ [][\A k \in Conns :
            (Pending(k) /\ ~Pending(k)') =>
                \/ received' = Append(received, k)
                \/ Cancelled(rctx[k])'
            ]_vars

\* C7, witness: a reader is blocked with its callback, no consumer is receiving,
\* and its scope is live.
C7_Witness ==
    \E k \in Conns :
        rpc[k] = "blocked" /\ consumer = "idle" /\ ~Cancelled(rctx[k]) /\ open[k]

\* The place of k in sequence q (0 when it is not there).
Pos(q, k) == IF k \in Range(q) THEN CHOOSE i \in 1..Len(q) : q[i] = k ELSE 0

\* C8, as stated: callbacks are received in the order in which their readers
\* finished decoding them.
C8_ReceivedInDecodeOrder ==
    \A i, j \in 1..Len(received) :
        i < j => Pos(decoded, received[i]) < Pos(decoded, received[j])

\* C8, amended: every callback the consumer received had been decoded by its
\* reader, is received once, and was not dropped; the order of two callbacks that
\* were both pending is not fixed by the order of decoding.
C8_ReceivedOnceAfterDecode ==
    /\ \A i \in 1..Len(received) :
          received[i] \in Range(decoded) /\ received[i] \notin dropped
    /\ \A i, j \in 1..Len(received) : i # j => received[i] # received[j]
    /\ \A i, j \in 1..Len(decoded) : i # j => decoded[i] # decoded[j]

\* C8, witness: two callbacks were received, the one decoded second first.
C8_Witness ==
    /\ Len(received) = 2
    /\ Pos(decoded, received[1]) > Pos(decoded, received[2])

\* C9, as stated (the part about the set): a Reset call that follows another one
\* leaves the open-callbacks set empty.
C9_RepeatedResetEmptiesCb == [][(ResetReturns /\ nreset >= 1) => cb' = {}]_vars

\* C9, amended: a Reset call (notifier.Close is one), the first or a later one,
\* never waits once it holds the mutex and the mutex's other holders never wait
\* either; when it returns the mutex is free, the open-callbacks set is the one it
\* found (empty if it was empty) and holds no open connection, and the current
\* scope is live, so a later NOTIFY gets a reader that can deliver.
C9_RepeatedResetSafe ==
    /\ [](/\ rstPc = "locked" => ENABLED ResetClose
          /\ rstPc = "closed" => ENABLED ResetCancel
          /\ \A k \in Conns : mu = <<"send", k>> => ENABLED SendRegister(k)
          /\ \A k \in Conns : mu = <<"reader", k>> => ENABLED ReaderExit(k)
          /\ mu = Free => ~Cancelled(ctx))
    /\ [][ResetReturns =>
            /\ mu' = Free
            /\ cb' = cb
            /\ \A k \in cb' : ~open'[k]
            /\ cancelledBy'[ctx'] = 0]_vars

\* C9, witness: two Reset calls have returned, the second with no callback
\* connection open, and a NOTIFY made after them has delivered its callback.
C9_Witness ==
    /\ nreset = 2
    /\ cb = {}
    /\ \E k \in Conns : regAt[k] = 2 /\ Got(k)
    /\ \A k \in Conns : rpc[k] # "none" => regAt[k] = 2

----------------------------------------------------------------------------
(* Claims about the Notifier facades *)

\* C10: for each backend, Notify with an event that has no registered template
\* returns ErrEvent, hands nothing to the backend and leaves the template map as
\* it was.
C10_UnknownEvent ==
    [][\A e \in Events, t \in Titles, bd \in Bodies, dispatchOk \in BOOLEAN :
          (FacadeNotify(e, t, bd, dispatchOk) /\ ev[e] = NoTemplate) =>
              /\ result' = [op |-> "Notify", event |-> e, err |-> "ErrEvent"]
              /\ sent' = sent
              /\ ev' = ev]_vars

\* C10, witness: a Notify for an unregistered event returned ErrEvent on a
\* notifier that has another event registered and has dispatched before.
C10_Witness ==
    /\ result.op = "Notify"
    /\ result.err = "ErrEvent"
    /\ ev[result.event] = NoTemplate
    /\ \E e \in Events : ev[e] # NoTemplate
    /\ Len(sent) > 0

\* C11: a Notify(e, T, B) for a registered event, whether the backend reports an
\* error or not, leaves the stored template of every event as it was; the
\* notification handed to the backend is the stored template with title T and
\* body B. The stored templates therefore always are as Register built them
\* (no title, no body), so a later Notify(e, T2, B2) dispatches T2 and B2 with
\* the registered options.
C11_TemplateUntouched ==
    /\ [][\A e \in Events, t \in Titles, bd \in Bodies, dispatchOk \in BOOLEAN :
             (FacadeNotify(e, t, bd, dispatchOk) /\ ev[e] # NoTemplate) =>
                 /\ ev' = ev
                 /\ sent' = Append(sent, [event |-> e,
                                 n |-> [set |-> TRUE, opt |-> ev[e].opt,
                                        title |-> t, body |-> bd]])]_vars
    /\ [](\A e \in Events : ev[e] = NoTemplate \/ ev[e] = Template(ev[e].opt))

\* C11, witness: two notifications of one event were dispatched with different
\* titles and bodies, the second after a backend error or not, and the stored
\* template still is the registered one.
C11_Witness ==
    /\ Len(sent) = 2
    /\ sent[1].event = sent[2].event
    /\ sent[1].n.title # sent[2].n.title
    /\ sent[1].n.body # sent[2].n.body
    /\ sent[2].n.opt = 1
    /\ ev[sent[1].event] = Template(1)
    /\ result.op = "Notify"
    /\ result.err = "backend"

----------------------------------------------------------------------------
(* Claims about the Block Cipher Layer *)

\* The Info holds a cipher (SetPassword succeeded with a password and an
\* encryption algorithm).
HasCipher == info.cipher # NoCipher

\* The argument of the Decrypt that ended the run.
Ciphertext ==
    CASE ops = <<"SetPassword", "Encrypt", "Decrypt">> -> Encrypt(info, data0)
      [] ops = <<"SetPassword", "PeerEncrypt", "Decrypt">> ->
             CBCEncrypt(info.cipher.key, info.cipher.bs, info.IV, data0)
      [] OTHER -> data0

\* What CBC decryption makes of the argument of that Decrypt.
Decrypted == CBCDecrypt(info.cipher.key, info.cipher.bs, info.IV, Ciphertext)

\* The last v bytes of dst all are v, where v is the last byte of dst.
TrailingRun(dst) ==
    LET v == dst[Len(dst)] IN
    /\ v <= Len(dst)
    /\ \A j \in (Len(dst) - v + 1)..Len(dst) : dst[j] = v

\* C12: on an Info that SetPassword prepared, Decrypt(Encrypt(b)) returns b and
\* no error, for every byte string b, every password and every pair of
\* algorithms SetPassword accepts; on an Info without a cipher Encrypt returns
\* its argument and Decrypt returns its argument and no error.
C12_RoundTrip ==
    /\ ops = <<"SetPassword", "Encrypt", "Decrypt">> =>
           (cerr = "nil" /\ buf = data0)
    /\ (Len(ops) >= 2 /\ ~HasCipher /\ ops[2] \in {"Encrypt", "Decrypt"}) =>
           (cerr = "nil" /\ buf = data0)
    /\ (ops = <<"SetPassword">> /\ cerr = "nil") =>
           /\ Decrypt(info, Encrypt(info, buf)) = [out |-> buf, err |-> "nil"]
           /\ ~HasCipher => /\ Encrypt(info, buf) = buf
                            /\ Decrypt(info, buf) = [out |-> buf, err |-> "nil"]

\* C12, witness: sixteen bytes went through Encrypt and Decrypt of an Info with
\* an AES cipher and came back.
C12_Witness ==
    /\ ops = <<"SetPassword", "Encrypt", "Decrypt">>
    /\ HasCipher
    /\ info.EncryptionAlgorithm = "AES"
    /\ Len(data0) = 16
    /\ buf = data0
    /\ cerr = "nil"

\* C13: with a cipher of block size bs, a Decrypt of whole blocks returns
\* ErrPKCS7 unless the last decrypted byte v is in 1..bs and the last v
\* decrypted bytes all are v; a last byte of 0 or above bs is rejected.
C13_PaddingChecked ==
    (/\ Len(ops) >= 2
     /\ ops[Len(ops)] = "Decrypt"
     /\ HasCipher
     /\ cerr # "panic") =>
        LET v == Decrypted[Len(Decrypted)] IN
        (cerr # "ErrPKCS7") => (v \in 1..info.cipher.bs /\ TrailingRun(Decrypted))

\* C13, the failing case: Decrypt returned no error for blocks whose last
\* decrypted byte is 0, and for blocks that end in more equal bytes than a
\* block holds.
C13_Witness ==
    /\ ops = <<"SetPassword", "PeerEncrypt", "Decrypt">>
    /\ HasCipher
    /\ info.cipher.bs = 8
    /\ Decrypted = Fill(16, 16)
    /\ cerr = "nil"
    /\ buf = <<>>

\* C14: with a cipher of block size bs, Encrypt(b) is the CBC encryption, under
\* the Info's cipher and IV, of b followed by p = bs - (len(b) mod bs) bytes that
\* all are p; p is in 1..bs, the result has len(b) + p bytes, and a b of 16
\* bytes under a 16-byte block gives 32 bytes.
C14_Padding ==
    (ops = <<"SetPassword", "Encrypt">> /\ HasCipher) =>
        LET bs == info.cipher.bs
            p == bs - (Len(data0) % bs)
        IN /\ p \in 1..bs
           /\ Len(buf) = Len(data0) + p
           /\ buf = CBCEncrypt(info.cipher.key, bs, info.IV, data0 \o Fill(p, p))
           /\ CBCDecrypt(info.cipher.key, bs, info.IV, buf) = data0 \o Fill(p, p)
           /\ (Len(data0) = 16 /\ bs = 16) => Len(buf) = 32

\* C14, witness: Encrypt made 32 bytes of 16 bytes under AES.
C14_Witness ==
    /\ ops = <<"SetPassword", "Encrypt">>
    /\ HasCipher
    /\ info.cipher.bs = 16
    /\ Len(data0) = 16
    /\ Len(buf) = 32

----------------------------------------------------------------------------
(* Claims about the Info Line Codec *)

\* C15: for an Info I on which SetPassword(p) with a non-empty p returned no
\* error, ParseInfo(I.String(), p) returns no error and an Info with the
\* version, message type, encryption algorithm, IV, hash algorithm, key hash
\* and salt of I (and a cipher with the same key).
C15_StringParseRoundTrip ==
    (/\ ops = <<"SetPassword", "String", "ParseInfo">>
     /\ cerr = "nil"
     /\ pw # <<>>
     /\ parsed.password = pw) =>
        /\ parsed.err = "nil"
        /\ parsed.info = info

\* C15, witness: an Info with an AES cipher, an IV and a salt from rand.Read
\* came back from its line.
C15_Witness ==
    /\ ops = <<"SetPassword", "String", "ParseInfo">>
    /\ pw # <<>>
    /\ parsed.password = pw
    /\ info.EncryptionAlgorithm = "AES"
    /\ info.HashAlgorithm = "SHA512"
    /\ info.MessageType = "-CALLBACK"
    /\ Len(info.IV) = 16
    /\ info.Salt \in Salts
    /\ parsed.info = info

\* ParseInfo has returned for a line a peer composed.
PeerLineParsed == parts # NoParts /\ parsed # NotParsed

\* The peer wrote version 1.0.
PeerVersionOK == parts.version = Version10

\* The peer wrote one of the five message types, in either case.
PeerTypeOK == \E t \in InfoTypes : TypeName(t) = ToUpper(parts.type)

\* The peer's encryption token is NONE alone.
PeerEncNone == parts.enc = EncryptionName("NONE")

\* The peer's encryption token is NONE followed by a colon and an IV.
PeerEncNoneIV == HasPrefix(parts.enc, EncryptionName("NONE") \o <<":">>)

\* The name and the IV of a peer's encryption token of the form name:hex.
PeerEncName == SubSeq(parts.enc, 1, IndexRune(parts.enc, ":") - 1)

PeerEncIV == HexDecode(SubSeq(parts.enc, IndexRune(parts.enc, ":") + 1, Len(parts.enc)))

\* The peer's encryption token is a name other than NONE with an IV in hex.
PeerEncCipher ==
    /\ IndexRune(parts.enc, ":") > 1
    /\ ~PeerEncNoneIV
    /\ PeerEncIV.ok

\* The line is an information line up to its hash segment, and that segment
\* names a supported hash.
PeerHashReached ==
    /\ PeerLineParsed
    /\ PeerVersionOK
    /\ PeerTypeOK
    /\ PeerEncNone \/ PeerEncCipher
    /\ parts.hashed
    /\ HashByName(parts.hash) \in HashAlgorithms

\* H(H(password || salt)) for the hash and the salt of the segment and the
\* password given to ParseInfo.
PeerExpectedKeyHash ==
    LET ha == HashByName(parts.hash) IN
    Digest(ha, Digest(ha, parsed.password \o parts.salt))

\* ParseInfo returned an Info that holds the key hash and the salt of the line.
PeerHashStored ==
    /\ parsed.err = "nil"
    /\ parsed.info.KeyHash = parts.keyhash
    /\ parsed.info.Salt = parts.salt
    /\ parsed.info.HashAlgorithm = HashByName(parts.hash)

\* C16, as claimed: on a line with a hash segment of a supported hash H (and an
\* encryption token that is NONE or names a cipher of the protocol), ParseInfo
\* returns ErrPassword when the segment's key hash differs from
\* H(H(password || salt)), and succeeds with the key hash and salt stored when
\* they are equal.
C16_KeyHashDecides ==
    (PeerHashReached /\ (PeerEncNone \/ EncryptionByName(PeerEncName) # "?")) =>
        IF parts.keyhash # PeerExpectedKeyHash
        THEN parsed.err = "ErrPassword"
        ELSE PeerHashStored

\* C16, amended: on such a line ParseInfo returns ErrPassword when the key hash
\* differs, whatever the encryption token. When it is equal the result depends
\* on the encryption token: with NONE ParseInfo succeeds with the key hash and
\* salt stored; with a cipher it succeeds, storing them, exactly if the cipher
\* is known, the digest of H has at least the bytes of the cipher's key and the
\* IV has the cipher's block size, and returns ErrEncryption, ErrKeyLength or
\* ErrProtocol otherwise.
C16_KeyHashThenCipher ==
    PeerHashReached =>
        IF parts.keyhash # PeerExpectedKeyHash
        THEN parsed.err = "ErrPassword"
        ELSE IF PeerEncNone THEN PeerHashStored
        ELSE LET ea == EncryptionByName(PeerEncName)
                 ha == HashByName(parts.hash)
             IN IF ea = "?" THEN parsed.err = "ErrEncryption"
                ELSE IF HashSize(ha) < KeyLength(ea) THEN parsed.err = "ErrKeyLength"
                ELSE IF Len(PeerEncIV.bytes) # BlockSize(ea)
                THEN parsed.err = "ErrProtocol"
                ELSE /\ PeerHashStored
                     /\ parsed.info.EncryptionAlgorithm = ea
                     /\ parsed.info.IV = PeerEncIV.bytes

\* C16, witness: a line with a DES token and the key hash of the password was
\* parsed with that password, and the Info holds the key hash and the salt.
C16_Witness ==
    /\ PeerHashReached
    /\ PeerEncCipher
    /\ parts.keyhash = PeerExpectedKeyHash
    /\ parsed.password # <<>>
    /\ PeerHashStored
    /\ parsed.info.EncryptionAlgorithm = "DES"

\* C17: ParseInfo returns ErrProtocol for every line whose version is not 1.0,
\* whose message type is none of the five (compared without regard to case, as
\* the scan is), or whose encryption token is NONE with an IV; it accepts a line
\* of version 1.0 and a message type of the five whose NONE token is followed
\* by nothing but white space.
C17_ProtocolErrors ==
    PeerLineParsed =>
        /\ (~PeerVersionOK \/ ~PeerTypeOK \/ PeerEncNoneIV) =>
               (parsed.err = "ErrProtocol" /\ parsed.info = NoInfo)
        /\ (PeerVersionOK /\ PeerTypeOK /\ PeerEncNone /\ ~parts.hashed) =>
               /\ parsed.err = "nil"
               /\ parsed.info.Version = "1.0"
               /\ TypeName(parsed.info.MessageType) = ToUpper(parts.type)
               /\ parsed.info.EncryptionAlgorithm = "NONE"

\* C17, witness: a line that ends in white space after NONE was accepted.
C17_Witness ==
    /\ PeerLineParsed
    /\ PeerVersionOK
    /\ PeerEncNone
    /\ ~parts.hashed
    /\ parts.tail # <<>>
    /\ parsed.err = "nil"
    /\ parsed.info.MessageType = "-CALLBACK"

----------------------------------------------------------------------------
(* Claims about the reply of a request *)

\* send handled a reply whose information line was read and parsed.
ReplyHandled == outcome # NotHandled /\ reply.head = "ok"

\* The header block of the reply was read: wholly, or up to the end of the bytes.
ReplyRead == reply.body \in {"ok", "eof"}

\* C18: for an -OK reply (whose header block is read) send returns no error and
\* a Response whose Action and ID are the values of Response-Action and
\* Notification-ID ("" if absent) and whose Header holds the other headers of
\* the reply and neither of these two keys; an -OK reply that cannot be read or
\* decrypted gives an error and no Response; a reply of type REGISTER, NOTIFY or
\* -CALLBACK gives ErrProtocol and no Response, whatever its body.
C18_OutcomeByType ==
    ReplyHandled =>
        /\ (reply.type = "-OK" /\ ReplyRead) =>
               /\ outcome.err = "nil"
               /\ outcome.resp.set
               /\ \A k \in {"Response-Action"} :
                      outcome.resp.Action = IF k \in DOMAIN reply.hdr
                                            THEN reply.hdr[k] ELSE <<>>
               /\ \A k \in {"Notification-ID"} :
                      outcome.resp.ID = IF k \in DOMAIN reply.hdr
                                        THEN reply.hdr[k] ELSE <<>>
               /\ DOMAIN outcome.resp.Header =
                      DOMAIN reply.hdr \ {"Response-Action", "Notification-ID"}
               /\ \A k \in DOMAIN outcome.resp.Header :
                      outcome.resp.Header[k] = reply.hdr[k]
        /\ (reply.type = "-OK" /\ ~ReplyRead) =>
               (outcome.err \notin {"nil", "Error"} /\ ~outcome.resp.set)
        /\ reply.type \notin {"-OK", "-ERROR"} =>
               (outcome.err = "ErrProtocol" /\ ~outcome.resp.set)

\* C18, witness: an -OK reply with all five headers gave a Response with an
\* Action, an ID and a Header of three keys.
C18_Witness ==
    /\ ReplyHandled
    /\ reply.type = "-OK"
    /\ DOMAIN reply.hdr = HeaderKeys
    /\ outcome.resp.set
    /\ outcome.resp.Action = <<"N", "O", "T", "I", "F", "Y">>
    /\ outcome.resp.ID = <<"1", "7">>
    /\ Cardinality(DOMAIN outcome.resp.Header) = 3

\* C19: for an -ERROR reply send returns no Response. If the reply is
\* encrypted err is ErrProtocol; otherwise (its header block being read), if
\* Error-Code is not a decimal integer err is the error of strconv.Atoi;
\* otherwise err is an Error whose Code is that integer, whose Description is
\* the value of Error-Description and whose Header holds the other headers.
C19_ErrorReply ==
    (ReplyHandled /\ reply.type = "-ERROR") =>
        /\ ~outcome.resp.set
        /\ outcome.err # "nil"
        /\ reply.enc => outcome.err = "ErrProtocol"
        /\ (~reply.enc /\ ReplyRead) =>
               LET code == IF "Error-Code" \in DOMAIN reply.hdr
                           THEN reply.hdr["Error-Code"] ELSE <<>>
               IN IF code \notin {<<"4", "0", "0">>, <<"-", "1">>}
                  THEN outcome.err = "atoi" /\ ~outcome.error.set
                  ELSE /\ outcome.err = "Error"
                       /\ outcome.error.set
                       /\ outcome.error.Code = (IF code = <<"4", "0", "0">> THEN 400 ELSE 0 - 1)
                       /\ outcome.error.Description =
                              (IF "Error-Description" \in DOMAIN reply.hdr
                               THEN reply.hdr["Error-Description"] ELSE <<>>)
                       /\ DOMAIN outcome.error.Header =
                              DOMAIN reply.hdr \ {"Error-Code", "Error-Description"}
                       /\ \A k \in DOMAIN outcome.error.Header :
                              outcome.error.Header[k] = reply.hdr[k]

\* C19, witness: an -ERROR reply with code 400, a description and another
\* header gave an Error with that code and a Header of that other header.
C19_Witness ==
    /\ ReplyHandled
    /\ reply.type = "-ERROR"
    /\ ~reply.enc
    /\ outcome.err = "Error"
    /\ outcome.error.Code = 400
    /\ outcome.error.Description = <<"x">>
    /\ DOMAIN outcome.error.Header = {"X-Extra"}

----------------------------------------------------------------------------
(* C20 *)

\* What ParseInfo makes of the line of the message, when there is a line.
FrameInfo == ParseInfo(FrameLine(frame), frame.password)

\* The reader was given the message and ran.
FrameHeard == heard # NotHeard

FrameUnparsable == frame.readline /\ FrameInfo.err # "nil"

FrameWrongType ==
    frame.readline /\ FrameInfo.err = "nil" /\ FrameInfo.info.MessageType # "-CALLBACK"

\* The line announces an encrypted -CALLBACK.
FrameEncrypted ==
    /\ frame.readline
    /\ FrameInfo.err = "nil"
    /\ FrameInfo.info.MessageType = "-CALLBACK"
    /\ FrameInfo.info.EncryptionAlgorithm # "NONE"

\* No line can be read, or the connection ends before the "\r\n\r\n" that
\* closes an encrypted body.
FrameReadError == ~frame.readline \/ (FrameEncrypted /\ frame.sealed = "missing")

\* The body is not the encryption of any text under the key and IV of the line:
\* it is empty, or not made of whole blocks, or its plaintext does not end in
\* v bytes of value v with 1 <= v <= block size.
FrameUndecryptable ==
    /\ FrameEncrypted
    /\ frame.sealed # "missing"
    /\ LET c == FrameInfo.info.cipher
           b == SealedBytes(frame.peer, frame.sealed)
       IN \/ Len(b) = 0
          \/ Len(b) % c.bs # 0
          \/ LET dst == CBCDecrypt(c.key, c.bs, FrameInfo.info.IV, b)
                 v == dst[Len(dst)]
             IN ~(v \in 1..c.bs /\ \A j \in (Len(dst) - v + 1)..Len(dst) : dst[j] = v)

\* The header block holds a line that is no header.
FrameMalformedHeader == frame.readline /\ frame.body = "badheader"

\* C20: when the retained connection yields a read error, an unparsable
\* information line, a message type other than -CALLBACK, an undecryptable body
\* or a malformed header block, the reader returns: it builds no Callback, never
\* reaches its select, and nothing else happens (it does not panic).
C20_SilentExit ==
    (/\ FrameHeard
     /\ \/ FrameReadError
        \/ FrameUnparsable
        \/ FrameWrongType
        \/ FrameUndecryptable
        \/ FrameMalformedHeader)
        => heard = Returns

\* An encrypted -CALLBACK whose body decrypts to bytes without padding was
\* read, and the reader returned.
C20_Witness ==
    /\ FrameHeard
    /\ FrameUndecryptable
    /\ frame.sealed = "badpad"
    /\ heard = Returns

----------------------------------------------------------------------------
(* C21 *)

\* a and b are the same word but for the case of their letters.
SameFold(a, b) ==
    /\ Len(a) = Len(b)
    /\ \A j \in 1..Len(a) :
          \/ a[j] = b[j]
          \/ \E n \in 1..26 : {a[j], b[j]} = {Lower[n], Upper[n]}

\* The reader built a Callback from a header block with a result in it.
ResultSent ==
    /\ heard.pc = "select"
    /\ "Notification-Callback-Result" \in DOMAIN frame.hdr

SentResult == frame.hdr["Notification-Callback-Result"]

\* C21: a Callback built from a Notification-Callback-Result that spells CLICK
\* or CLICKED in any case carries CLICKED, one that spells CLOSE or CLOSED
\* carries CLOSED, and one that spells TIMEOUT or TIMEDOUT carries TIMEOUT.
C21_ResultMapping ==
    ResultSent =>
        /\ (SameFold(SentResult, <<"C", "L", "I", "C", "K">>)
               \/ SameFold(SentResult, <<"C", "L", "I", "C", "K", "E", "D">>))
              => heard.cb.Result = CLICKED
        /\ (SameFold(SentResult, <<"C", "L", "O", "S", "E">>)
               \/ SameFold(SentResult, <<"C", "L", "O", "S", "E", "D">>))
              => heard.cb.Result = CLOSED
        /\ (SameFold(SentResult, <<"T", "I", "M", "E", "O", "U", "T">>)
               \/ SameFold(SentResult, <<"T", "I", "M", "E", "D", "O", "U", "T">>))
              => heard.cb.Result = TIMEOUT

\* A Callback with TIMEOUT was built from "tIMEDOUT".
C21_Witness ==
    /\ ResultSent
    /\ SentResult = <<"t", "I", "M", "E", "D", "O", "U", "T">>
    /\ heard.cb.Result = TIMEOUT

----------------------------------------------------------------------------
(* C22 *)

\* The Register call ran.
Registered == regOut # NotRegistered

RecognizedKeys(b) == {OptKeys(b)[j] : j \in 1..Len(OptKeys(b))}

\* The type each recognized key is documented with.
KeyType(k) ==
    CASE k = "gntp:display-name" -> "string"
      [] k \in {"gntp:enabled", "gntp:sticky", "windows:sound"} -> "bool"
      [] k = "gntp:priority" -> "int"
      [] k = "freedesktop:actions" -> "map[string]string"
      [] k = "freedesktop:hints" -> "map[string]interface{}"
      [] k = "freedesktop:timeout" -> "int32"
      [] k = "windows:fallback-icon" -> "IconType"

\* A value of the type of the key; the two integer keys take every integer type.
TypeMatches(k, v) ==
    IF KeyType(k) \in {"int", "int32"} THEN v.type \in IntTypes ELSE v.type = KeyType(k)

\* The icon is one the backend takes, and the backend looks the key up: the
\* fallback icon is looked up only for an icon handle on a shell before 6.0.6.
Consulted(k) ==
    /\ regIn.icon # "other"
    /\ k = "windows:fallback-icon" => (regIn.icon = "Icon" /\ regIn.shell # "6.0.6")

\* The opts of the call without the keys its backend does not recognize.
OwnOpts ==
    [k \in DOMAIN regIn.opts \cap RecognizedKeys(regIn.b) |-> regIn.opts[k]]

\* C22 as stated: a Register call whose opts hold a key that the backend does
\* not recognize is rejected with a type-mismatch error.
C22_UnknownKeyRejected ==
    (Registered /\ DOMAIN regIn.opts \ RecognizedKeys(regIn.b) # {})
        => (~regOut.stored /\ regOut.err.kind = "expects")

\* C22, amended: keys the backend does not recognize are ignored (the call ends
\* as it does without them); a recognized key that is looked up and holds a
\* value of another type is rejected with an error naming the key and its type;
\* and no other call gets that error, but for a freedesktop:timeout out of the
\* int32 range.
C22_RecognizedKeysTyped ==
    Registered =>
        /\ regOut = RegisterOptions([regIn EXCEPT !.opts = OwnOpts])
        /\ \A k \in DOMAIN OwnOpts :
              (Consulted(k) /\ ~TypeMatches(k, OwnOpts[k]))
                  => /\ ~regOut.stored
                     /\ regOut.err = [kind |-> "expects", key |-> k,
                                      expects |-> KeyType(k)]
        /\ regOut.err.kind = "expects"
              => /\ regOut.err.key \in DOMAIN OwnOpts
                 /\ regOut.err.expects = KeyType(regOut.err.key)
                 /\ \/ ~TypeMatches(regOut.err.key, OwnOpts[regOut.err.key])
                    \/ regOut.err.key = "freedesktop:timeout"

\* A call with a key that is not recognized and a well-typed recognized key
\* stored its template.
C22_Witness ==
    /\ Registered
    /\ regOut.stored
    /\ OtherKey \in DOMAIN regIn.opts
    /\ OwnOpts # <<>>

----------------------------------------------------------------------------
(* C23 *)

\* A Register call of the GNTP facade with a gntp:priority ran.
PrioritySent ==
    /\ Registered
    /\ regIn.b = "gntp"
    /\ "gntp:priority" \in DOMAIN regIn.opts

SentPriority == regIn.opts["gntp:priority"]

\* C23: a gntp:priority is accepted, and stored as the template's priority,
\* exactly when it is of an integer type and lies in [-2^31, 2^31 - 1]; any
\* other value is rejected with an error and no template is stored.
C23_PriorityInt32 ==
    PrioritySent =>
        IF SentPriority.type \in IntTypes /\ FitsSigned(SentPriority.val, 32)
        THEN regOut.stored /\ regOut.n.Priority = SentPriority.val
        ELSE ~regOut.stored /\ regOut.err.kind \in {"expects", "overflows"}

\* An int64 of 2^31 was rejected as overflowing.
C23_Witness ==
    /\ PrioritySent
    /\ SentPriority = [type |-> "int64", val |-> Num(FALSE, Pow2(31))]
    /\ ~regOut.stored
    /\ regOut.err.kind = "overflows"

----------------------------------------------------------------------------
(* C24 *)

\* C24: whatever the number of Close calls and their callers, c.conn.Close()
\* is called at most once, and only by the call that closed c.done, after the
\* signal goroutine returned; a call that finds c.done closed returns nil from
\* its select without closing anything; and every call returns.
C24_CloseIdempotent ==
    /\ [](connCloses <= 1)
    /\ [][connCloses' # connCloses => (fdDone /\ sigPc = "exited" /\ fdWg = 0)]_vars
    /\ [][\A c \in Callers :
            (closePc[c] = "locked" /\ fdDone /\ closePc'[c] # "locked")
                => /\ closePc'[c] = "idle"
                   /\ closeRet'[c] = "early"
                   /\ connCloses' = connCloses
                   /\ sigPc' = sigPc]_vars
    /\ \A c \in Callers : (closePc[c] # "idle") ~> (closePc[c] = "idle")

\* The connection is closed, its closer has called Close again and returned
\* from the select, and the other caller returned from the select twice.
C24_Witness ==
    /\ connCloses = 1
    /\ \A c \in Callers : closeCalls[c] = MaxCloses /\ closePc[c] = "idle"
    /\ \A c \in Callers : closeRet[c] = "early"

----------------------------------------------------------------------------
(* C25 *)

IsPrefix(a, b) == Len(a) <= Len(b) /\ a = SubSeq(b, 1, Len(a))

\* C25: of each kind, the consumer has received the first of the signals the
\* goroutine took, each once and in the order they were taken; those taken and
\* not received are the buffer, in that order, ready to be sent; and as long
\* as the goroutine runs it can take the next signal from the bus, whatever
\* the buffers hold.
C25_SignalsInOrder ==
    /\ \A k \in Kinds :
          /\ IsPrefix(got[k], acc[k])
          /\ acc[k] = got[k] \o (IF chOn[k] THEN sbuf[k] ELSE <<>>)
    /\ (sigPc = "select" /\ nsig < MaxSignals)
          => \A kind \in Kinds \cup {"other"} : ENABLED SigAccept(kind)

\* Three NotificationClosed signals were taken; the consumer received the
\* first, and the two that arrived since wait in the buffer.
C25_Witness ==
    /\ acc["closed"] = <<1, 2, 3>>
    /\ got["closed"] = <<1>>
    /\ sbuf["closed"] = <<2, 3>>
    /\ sigPc = "select"

----------------------------------------------------------------------------
(* C26 *)

\* The keys of the calls made, each once, in the order of their first call.
RECURSIVE FirstKeys(_)
FirstKeys(cs) ==
    IF cs = <<>> THEN <<>>
    ELSE LET front == FirstKeys(SubSeq(cs, 1, Len(cs) - 1))
             key == cs[Len(cs)][1]
         IN IF \E j \in 1..Len(front) : front[j] = key THEN front
            ELSE Append(front, key)

\* The label of the last call made with the key.
LastLabel(cs, key) ==
    cs[CHOOSE j \in 1..Len(cs) :
          cs[j][1] = key /\ \A m \in (j + 1)..Len(cs) : cs[m][1] # key][2]

\* C26: after any sequence of Action calls on a new Notification, Actions has
\* even length and is the list of (key, label) pairs of the keys given, each
\* key once, in the order of its first call, with the label of its last call.
C26_ActionsPairs ==
    /\ Len(actions) % 2 = 0
    /\ Len(actions) = 2 * Len(FirstKeys(calls))
    /\ \A j \in 1..Len(FirstKeys(calls)) :
          /\ actions[2 * j - 1] = FirstKeys(calls)[j]
          /\ actions[2 * j] = LastLabel(calls, FirstKeys(calls)[j])

\* Key "b" was given the label "a", then key "a" was added, then the label of
\* "b" was replaced.
C26_Witness ==
    /\ calls = <<<<"b", "a">>, <<"a", "L1">>, <<"b", "L2">>>>
    /\ actions = <<"b", "L2", "a", "L1">>

----------------------------------------------------------------------------
(* C27 *)

\* C27: Convert succeeds on an image of each of the ten types, giving a Gray
\* for a Gray or a Gray16 and an NRGBA for the others, with the bounds of the
\* image given; and it fails on an Alpha.
C27_ConvertTen ==
    converted # NotConverted =>
        /\ img.type \in {"CMYK", "Gray", "Gray16", "NRGBA", "NRGBA64", "NYCbCrA",
                          "Paletted", "RGBA", "RGBA64", "YCbCr"}
              => /\ converted.ok
                 /\ converted.out.type
                        = (IF img.type \in {"Gray", "Gray16"} THEN "Gray" ELSE "NRGBA")
                 /\ converted.out.bounds = img.bounds
        /\ img.type = "Alpha" => ~converted.ok

\* A Gray16 whose bounds do not start at the origin became a Gray of the same
\* bounds.
C27_Witness ==
    /\ converted.ok
    /\ img.type = "Gray16"
    /\ img.bounds = [Min |-> <<1, 1>>, Max |-> <<3, 2>>]
    /\ converted.out = [type |-> "Gray", bounds |-> img.bounds]

----------------------------------------------------------------------------
(* C28 *)

\* The callback goroutine of connection k was started and has not returned.
ReaderRuns(k) == rpc[k] \notin {"none", "done"}

\* C28: c.cb is at all times the set of the connections whose reader was
\* started and has not returned; a reader that returns, by whichever path,
\* leaves its connection closed and out of c.cb; and a reader that has left its
\* read or its select does return.
C28_OpenSetIsRunningReaders ==
    /\ [](cb = {k \in Conns : ReaderRuns(k)})
    /\ [][\A k \in Conns :
            (ReaderRuns(k) /\ ~ReaderRuns(k)') => (~open'[k] /\ k \notin cb')]_vars
    /\ \A k \in Conns : (rpc[k] = "exit") ~> (rpc[k] = "done")

\* One reader returned on a message it refused, the other was cancelled in
\* its select and returned, and c.cb is empty again.
C28_Witness ==
    /\ \E k \in Conns :
          rpc[k] = "done" /\ wire[k] = "taken" /\ k \notin Range(decoded)
    /\ \E k \in Conns : rpc[k] = "done" /\ k \in dropped
    /\ cb = {}

----------------------------------------------------------------------------
(* C29 *)

\* The fields the mutex is declared above: c.cb, c.ctx and c.cancel.
Guarded == {"cb", "ctx", "cancel"}

\* C29 as stated: every access of Register, Notify, Reset and the readers to
\* c.cb, to the scope handle and to c.Header is made while c.mu is held.
C29_AllUnderMutex == \A a \in alog : a.held

\* C29: every access of Notify's send, of Reset and of the readers to c.cb and
\* to the scope handle (c.ctx, c.cancel) is made while c.mu is held; c.Header is
\* accessed by Register and by Notify only, it is only read, and it is read
\* without c.mu.
C29_ScopeAndSetUnderMutex ==
    \A a \in alog :
        /\ a.field \in Guarded => a.held
        /\ a.field = "Header" =>
              a.mode = "read" /\ ~a.held /\ a.by \in {"Register", "Notify"}

\* Register and Notify have read c.Header, a Notify call has added to c.cb and
\* read c.ctx, a Reset call has gone over c.cb and replaced the scope and a
\* reader has deleted from c.cb, while another goroutine was waiting for c.mu.
C29_Witness ==
    /\ \A m \in {"Register", "Notify"} : \E a \in alog : a.by = m /\ a.field = "Header"
    /\ \E a \in alog : a.by = "Notify" /\ a.field = "cb"
    /\ \E a \in alog : a.by = "Notify" /\ a.field = "ctx"
    /\ \E a \in alog : a.by = "Reset" /\ a.field = "cb"
    /\ \E a \in alog : a.by = "Reset" /\ a.field = "ctx" /\ a.mode = "write"
    /\ \E a \in alog : a.by = "callback" /\ a.field = "cb"
    /\ amu # 0
    /\ \E t \in Routines : apc[t].at = "lock"

----------------------------------------------------------------------------
(* C30 *)

\* The part of l before the first c (all of l without one) and the part after.
Before(l, c) == IF IndexRune(l, c) = 0 THEN l ELSE SubSeq(l, 1, IndexRune(l, c) - 1)

After(l, c) == IF IndexRune(l, c) = 0 THEN <<>> ELSE SubSeq(l, IndexRune(l, c) + 1, Len(l))

\* The encryption algorithm an information line names: its third token, up to
\* the colon.
NamedEncryption(l) == Before(Before(After(After(l, " "), " "), " "), ":")

\* The request was written in full.
RequestWritten == wrote.err = "nil"

\* The header block and every resource are written as they are, the header
\* block followed by one CRLF.
WrittenInClear ==
    /\ wrote.body = req.header
    /\ wrote.term = CRLF
    /\ \A k \in 1..Len(req.list) :
          wrote.blobs[k].data = req.list[k] /\ wrote.blobs[k].length = Len(req.list[k])

\* The header block and every resource are written encrypted under the cipher
\* and the IV that i holds, the header block followed by CRLF CRLF and each
\* Length the length of the encrypted data.
WrittenUnder(i) ==
    /\ i.cipher # NoCipher
    /\ Len(i.IV) = i.cipher.bs
    /\ wrote.body = CBCEncrypt(i.cipher.key, i.cipher.bs, i.IV,
                               Padded(req.header, i.cipher.bs))
    /\ wrote.term = CRLF \o CRLF
    /\ \A k \in 1..Len(req.list) :
          /\ wrote.blobs[k].data = CBCEncrypt(i.cipher.key, i.cipher.bs, i.IV,
                                              Padded(req.list[k], i.cipher.bs))
          /\ wrote.blobs[k].length = Len(wrote.blobs[k].data)

\* C30: a request whose information line names an encryption algorithm other
\* than NONE has its header block and every resource encrypted under the cipher
\* and IV of that line (as its receiver, knowing the password, makes them of the
\* line), CRLF CRLF after the header block and each Length the length of the
\* encrypted data; a request whose line names NONE is written in the clear.
C30_EncryptedAsNamed ==
    RequestWritten =>
        IF NamedEncryption(wrote.line) = EncryptionName("NONE")
        THEN WrittenInClear
        ELSE LET p == ParseInfo(wrote.line, req.password) IN
             p.err = "nil" /\ WrittenUnder(p.info)

\* A request of a client with an encryption algorithm and no password was
\* written: its line names the algorithm and its header block went out as it was.
C30_Witness ==
    /\ RequestWritten
    /\ req.password = <<>>
    /\ NamedEncryption(wrote.line) = EncryptionName("AES")
    /\ Len(req.list) = 2
    /\ wrote.body = req.header

----------------------------------------------------------------------------
(* C31 *)

\* C31: on a connection the events come in the order information line,
\* header block, resources, end of request, reply line, reply body, callback
\* line, callback body, each but the resources at most once; the callback of
\* the connection is read only for a NOTIFY answered by -OK and after the reply
\* was read; nothing is written once a read was made.
C31_TotalOrder ==
    /\ \A m, n \in 1..Len(trace) :
          m < n => /\ Rank(trace[m]) <= Rank(trace[n])
                   /\ Rank(trace[m]) = Rank(trace[n]) => trace[m] = "blob"
    /\ \A n \in 1..Len(trace) :
          trace[n] \in {"cbline", "cbbody"} =>
              /\ call.mt = "NOTIFY"
              /\ call.line = "-OK"
              /\ \E m \in 1..(n - 1) : trace[m] = "replybody"
    /\ \A m, n \in 1..Len(trace) :
          (m < n /\ trace[m] \notin Writes) => trace[n] \notin Writes
    /\ \A n \in 1..Len(trace) :
          trace[n] \in {"replyline", "end"} =>
              Cardinality({m \in 1..(n - 1) : trace[m] = "blob"}) = call.blobs

\* A NOTIFY with two resources was answered by -OK and its callback was read.
C31_Witness ==
    /\ call.mt = "NOTIFY"
    /\ call.blobs = MaxBlobs
    /\ kpc = "exit"
    /\ trace[Len(trace)] = "cbbody"
    /\ Len(trace) = 8 + MaxBlobs - 1

----------------------------------------------------------------------------
(* C32 *)

\* The header value v has the form x-growl-resource://ID.
RefersToResource(v) == HasPrefix(v, ResourceScheme)

\* b.list holds under the identifier of v data of which the identifier is the
\* hex-encoded digest under the client's hash algorithm.
Attached(v) ==
    \E e \in built.list :
        /\ e.id = SubSeq(v, Len(ResourceScheme) + 1, Len(v))
        /\ e.id = HexEncode(Digest(breq.ha, e.data))

\* The header h was given as data: bytes or a reader, or, for an icon, an image.
GivenData(h) ==
    \/ h.given \in {"bytes", "reader"}
    \/ h.given = "image" /\ h.key # "X-Custom"

\* C32 as stated: every header value of the buffer that has the form of a
\* resource reference has its data in b.list under its identifier.
C32_EveryReferenceAttached ==
    built.err = "nil" =>
        \A n \in 1..Len(built.headers) :
            RefersToResource(built.headers[n].value) => Attached(built.headers[n].value)

\* C32: every header value that the buffer made of bytes, of a reader or, for
\* an icon, of an image is a resource reference with its data in b.list under its
\* identifier, the hex-encoded digest of that data under the client's hash
\* algorithm; every entry of b.list is under the digest of its data; a string is
\* written as the caller gave it, with nothing added to b.list.
C32_MadeReferencesAttached ==
    built.err = "nil" =>
        /\ \A n \in 1..Len(built.headers) :
              LET h == built.headers[n] IN
              IF GivenData(h)
              THEN RefersToResource(h.value) /\ Attached(h.value)
              ELSE IF h.given = "string"
              THEN \E v \in GivenValues : v.kind = "string" /\ v.chars = h.value
              ELSE ~RefersToResource(h.value)
        /\ \A e \in built.list : e.id = HexEncode(Digest(breq.ha, e.data))
        /\ Cardinality(built.list) <=
              Cardinality({n \in 1..Len(built.headers) : GivenData(built.headers[n])})

\* A Register call gave an image as c.Icon, a reader as a custom header and
\* bytes as the icon of the notification, and its buffer holds the three.
C32_Witness ==
    /\ built.err = "nil"
    /\ breq.op = "Register"
    /\ breq.icon.kind = "image"
    /\ breq.custom.kind = "reader"
    /\ breq.nicon.kind = "bytes"
    /\ Cardinality(built.list) = 3

----------------------------------------------------------------------------
(* C33 *)

\* Invariant (a) of the Info record: the encryption algorithm is NONE exactly
\* when there is neither an IV nor a cipher.
NoneIffBare(i) ==
    (i.EncryptionAlgorithm = "NONE") <=> (i.IV = <<>> /\ i.cipher = NoCipher)

\* C33: the Info that SetPassword leaves behind, whatever the password and the
\* encryption algorithm, and the Info that ParseInfo returns, have an encryption
\* algorithm of NONE exactly when they have neither an IV nor a cipher.
C33_NoneIffNoIVNoCipher ==
    /\ (ops # <<>> /\ ops[1] = "SetPassword") => NoneIffBare(info)
    /\ parsed.err = "nil" => NoneIffBare(parsed.info)

\* SetPassword("") was called on an Info with an encryption algorithm.
C33_Witness ==
    /\ ops = <<"SetPassword">>
    /\ pw = <<>>
    /\ cerr = "nil"
    /\ info.EncryptionAlgorithm = "AES"
    /\ info.cipher = NoCipher

----------------------------------------------------------------------------
(* C34 *)

\* The step is a call of SetPassword with a password that is not empty.
SetsPassword == ops' # ops /\ ops'[Len(ops')] = "SetPassword" /\ pw' # <<>>

\* C34: a SetPassword(p) with p not empty gives an Info without a salt a salt
\* of 16 bytes and leaves the salt of an Info that has one as it is; called
\* again with the same p on the same Info it leaves the salt and the key hash
\* as the call before left them.
C34_SaltKept ==
    [][SetsPassword =>
          /\ info.Salt = <<>> => Len(info'.Salt) = 16
          /\ info.Salt # <<>> => info'.Salt = info.Salt
          /\ (ops # <<>> /\ pw = pw') =>
                (info'.Salt = info.Salt /\ info'.KeyHash = info.KeyHash)]_vars

\* SetPassword("pw") was called three times on an Info that had no salt.
C34_Witness ==
    /\ ops = <<"SetPassword", "SetPassword", "SetPassword">>
    /\ pw # <<>>
    /\ Len(info.Salt) = 16
    /\ info.KeyHash # <<>>
    /\ cerr = "nil"

----------------------------------------------------------------------------
(* C35 *)

\* The NOTIFY requests that succeeded so far.
SucceededNotifies == {k \in 1..nconn : mt[k] = "NOTIFY" /\ err[k] = "nil"}

\* C35: no connection has more than one callback delivered on c.Callback,
\* every delivered callback is that of a NOTIFY that succeeded, and so the
\* callbacks delivered are never more than the NOTIFY requests that succeeded.
C35_OneCallbackPerNotify ==
    /\ \A m, n \in 1..Len(received) : received[m] = received[n] => m = n
    /\ Range(received) \subseteq SucceededNotifies
    /\ Len(received) <= Cardinality(SucceededNotifies)

\* Every NOTIFY of the run succeeded, had its callback delivered, and its
\* reader has returned.
C35_Witness ==
    /\ Len(received) = MaxConns
    /\ \A k \in Conns : rpc[k] = "done"

----------------------------------------------------------------------------
(* C36 *)

\* The last operation of the run was a Decrypt with a cipher set.
DecryptedUnderCipher == ops # <<>> /\ ops[Len(ops)] = "Decrypt" /\ info.cipher # NoCipher

\* C36: with a cipher set, Decrypt returns a plaintext or ErrPKCS7 for every
\* byte string, the empty one and those that are not made of full blocks
\* included; it never panics.
C36_DecryptNeverFaults == DecryptedUnderCipher => cerr \in {"nil", "ErrPKCS7"}

\* Decrypt was given, with a cipher set, a byte string that is not made of
\* full blocks.
C36_Witness ==
    /\ DecryptedUnderCipher
    /\ ops = <<"SetPassword", "Decrypt">>
    /\ Len(data0) % info.cipher.bs # 0

----------------------------------------------------------------------------
(* C37 *)

\* C37: a Register call of a facade that returns an error leaves p.ev as it
\* was before the call.
C37_FailedRegisterStoresNothing ==
    [][(result'.op = "Register" /\ result'.err # "nil") => ev' = ev]_vars

\* A Register call of the GNTP facade returned the error of its REGISTER
\* request, and the event of the call can be notified.
C37_Witness ==
    /\ backend = "gntp"
    /\ result.op = "Register"
    /\ result.err = "request"
    /\ Lookup(result.event)

----------------------------------------------------------------------------
(* C38 *)

\* The events that have a template.
Registered38 == {e \in Events : ev[e].set}

\* C38: the list a Register call of the GNTP facade hands to c.Register
\* holds every event that has a template once and nothing else, and its
\* Notifications-Count is the number of these events; a Register call for an
\* event that has a template replaces the template.
C38_ListIsTemplateMap ==
    /\ [][(backend = "gntp" /\ result'.op = "Register" /\ result'.err # "option") =>
            /\ Range(lastReq'.names) = {e \in Events : ev'[e].set}
            /\ \A m, n \in 1..Len(lastReq'.names) :
                  lastReq'.names[m] = lastReq'.names[n] => m = n
            /\ lastReq'.count = Cardinality({e \in Events : ev'[e].set})
            /\ {e \in Events : ev'[e].set} =
                  {e \in Events : ev[e].set} \cup {result'.event}
            /\ \A e \in Events : e # result'.event => ev'[e] = ev[e]]_vars
    /\ [](backend = "gntp" => lastReq.count <= Cardinality(Registered38))

\* Every event was registered with the GNTP facade, and the request of the
\* last Register call, which succeeded, lists them all.
C38_Witness ==
    /\ backend = "gntp"
    /\ result.op = "Register"
    /\ result.err = "nil"
    /\ lastReq.count = Cardinality(Events)
    /\ \E e \in Events : ev[e].opt = 1

(* C39 *)

\* The line was composed without a hash segment.
NoHashSegment == ~parts.hashed

\* The line without a hash segment is a reply of the protocol in clear:
\* version 1.0, a reply type and NONE.
ReplyWithoutHash ==
    /\ NoHashSegment
    /\ parts.version = Version10
    /\ parts.type \in {TypeName(t) : t \in {"-OK", "-ERROR", "-CALLBACK"}}
    /\ parts.enc = EncryptionName("NONE")

\* C39: on a line without a hash segment ParseInfo returns the same Info and
\* the same error for every password, and this is what the call made returned;
\* a reply line (-OK, -ERROR, -CALLBACK) without a hash segment is accepted
\* whatever the password of the client is, the non-empty one included. (A line
\* that names a cipher and has no hash segment is refused for every password.)
C39_NoHashNoPassword ==
    (parsed # NotParsed /\ NoHashSegment) =>
        /\ \A p1, p2 \in Passwords : ParseInfo(line, p1) = ParseInfo(line, p2)
        /\ \A p \in Passwords :
              /\ parsed.info = ParseInfo(line, p).info
              /\ parsed.err = ParseInfo(line, p).err
        /\ ReplyWithoutHash =>
              /\ parsed.err = "nil"
              /\ parsed.info.MessageType \in {"-OK", "-ERROR", "-CALLBACK"}

\* A client with the password "pw" parsed a -CALLBACK line that has no hash
\* segment, and took it.
C39_Witness ==
    /\ parsed # NotParsed
    /\ ReplyWithoutHash
    /\ parts.type = TypeName("-CALLBACK")
    /\ parsed.password = <<112, 119>>
    /\ parsed.err = "nil"

(* C40 *)

\* Close has posted the close message and has not returned.
ClosePosted == niClose.pc \in {"Wait", "receive"}

\* Both goroutines have exited and no Close call is under way.
AllReturned ==
    /\ niMsg = "exit"
    /\ niEvent.pc = "exit"
    /\ niClose.pc = "idle"

\* C40: once Close has posted the close message, the message goroutine and
\* the event goroutine exit and Close returns, whatever was queued before the
\* close message or arrives after it; and a Close call after one that went
\* through posts nothing and returns nil.
C40_CloseTerminates ==
    /\ ClosePosted ~> AllReturned
    /\ [][(niClose.calls >= 1 /\ niClose'.calls = niClose.calls + 1) =>
            (~niClose'.posted /\ niClose'.last = "nil")]_vars

\* TaskbarCreated was taken from the queue before the close message:
\* windowProc waits in ni.Add for the mutex that Close holds, and Close waits
\* in wg.Wait for the goroutine that runs windowProc.
C40_Witness ==
    /\ niClose.pc = "Wait"
    /\ niMu = "Close"
    /\ niMsg = "Add"
    /\ WM_CLOSE \in Range(niQueue)
    /\ niWg = 2

====
